---- MODULE Spec2Model ----
(***************************************************************************)
(* Model of the nerd-gui Whisper dictation pipeline:                       *)
(*   - VoiceActivityDetector / AudioCapture   (whisper/audio_capture.py)   *)
(*   - KeywordDetector                        (whisper/keyword_detector.py)*)
(*   - CommandRegistry                        (whisper/command_registry.py)*)
(*   - WhisperBackend._on_transcription_result (whisper_backend.py)        *)
(*   - KeyboardOutput / TextProcessor         (whisper/keyboard_output.py) *)
(*                                                                         *)
(* Optional values (Python None) are sequences of length 0 or 1:           *)
(*   None == <<>>,  Some(x) == <<x>>.                                      *)
(* Durations are integers in milliseconds.                                 *)
(***************************************************************************)
EXTENDS Integers, Sequences, FiniteSets, TLC

VARIABLES
    \* ---- VoiceActivityDetector / AudioCapture -------------------------
    silence_duration,   \* VoiceActivityDetector(silence_duration=...), ms
    min_audio_length,   \* AudioCapture.min_audio_length, ms
    use_webrtcvad,      \* VoiceActivityDetector.use_webrtcvad
    is_speaking,        \* VoiceActivityDetector.is_speaking
    silence_counter,    \* VoiceActivityDetector.silence_counter
    audio_buffer,       \* VoiceActivityDetector.audio_buffer: the frames it holds,
                        \* each named by its position in the stream
    frames,             \* history: the stream so far, "speech" / "silence" per
                        \* frame as the detector classified it, "reset" for reset()
    last_ret,           \* history: what the last process_frame returned
    chunks_sent,        \* history: the chunks handed to on_audio_chunk, in order
    \* ---- KeywordDetector ----------------------------------------------
    keyword,            \* KeywordDetector.keyword
    timeout_seconds,    \* KeywordDetector.timeout_seconds
    max_command_words,  \* KeywordDetector.max_command_words
    has_registry,       \* KeywordDetector.command_registry is not None
    current_mode,       \* KeywordDetector.current_mode
    keyword_detected_time,  \* KeywordDetector.keyword_detected_time (optional)
    \* ---- CommandRegistry ----------------------------------------------
    commands,           \* CommandRegistry.commands, in insertion order
    \* ---- WhisperBackend -----------------------------------------------
    voice_commands_enabled, \* WhisperBackend.voice_commands_enabled
    is_first_chunk,     \* WhisperBackend.is_first_chunk
    \* ---- KeyboardOutput -----------------------------------------------
    xdotool_available,  \* KeyboardOutput.xdotool_available
    ko_is_running,      \* KeyboardOutput.is_running
    workers,            \* the number of live threads running _output_loop
    output_queue,       \* KeyboardOutput.output_queue: (text, enable_correction)
                        \* items and the sentinel, oldest first
    previous_text,      \* KeyboardOutput.previous_text
    xdo,                \* history: the key and type operations the last
                        \* _type_text_with_correction, type_immediate,
                        \* simulate_key_press or execute_command call issued,
                        \* in order
    ko_taken,           \* history: the arguments of the last
                        \* _type_text_with_correction and the previous_text
                        \* it found (optional)
    \* ---- WhisperBackend, its AudioCapture and TranscriptionWorker -------
    status,             \* BaseBackend._status
    error_message,      \* BaseBackend._error_message is not None
    start_ret,          \* history: what the last WhisperBackend.start returned
                        \* (optional)
    is_model_loaded,    \* WhisperTranscriber.is_model_loaded
    ac_is_running,      \* AudioCapture.is_running
    capture_alive,      \* the thread running _capture_loop is alive
    is_recording,       \* MicrophoneStream.is_recording
    stream_open,        \* MicrophoneStream.stream is an open PyAudio stream
    tw_is_running,      \* TranscriptionWorker.is_running
    tw_alive,           \* the thread running _worker_loop is alive
    audio_queue,        \* TranscriptionWorker.audio_queue: utterances, each
                        \* named by its number in the order the segmenter
                        \* emitted them, and the sentinel (0), oldest first
    tw_audio,           \* the utterance _worker_loop took last (0: none yet)
    emitted,            \* history: the number of utterances the capture thread
                        \* has handed to on_audio_chunk
    closed,             \* history: the components WhisperBackend.stop has
                        \* stopped, in the order it stopped them
    stopping,           \* a call of WhisperBackend.stop has stopped the
                        \* components and has not yet set the status STOPPED
    stop_ret,           \* history: what the last WhisperBackend.stop returned
                        \* (optional), while start has not been called since
    tw_orphans,         \* the number of live threads running _worker_loop of
                        \* TranscriptionWorker objects that start has replaced
    \* ---- MicrophoneStream (with is_recording and stream_open) ----------
    device_index,       \* MicrophoneStream.device_index (optional)
    actual_sample_rate, \* MicrophoneStream.actual_sample_rate, Hz
    mic_start,          \* history: the last call of MicrophoneStream.start
                        \* that tried to open a stream (optional): what the
                        \* device answered, the rates audio.open was called
                        \* with, and whether start raised
    read_chunk_ret,     \* history: what read_chunk returned last since the
                        \* stream was started (optional)
    \* ---- DictationController and Database ------------------------------
    current_backend,    \* DictationController.current_backend is not None
    sessions,           \* Database: the rows of the sessions table, oldest
                        \* first, each with its language and status
    get_status_ret,     \* history: what the last get_status returned
                        \* (optional)
    \* ---- the caller of process_text / _on_transcription_result --------
    now,                \* time.time(), s
    pc,                 \* "idle", "pending" (a text is to be handled), "done"
    text,               \* the text being handled
    call,               \* history: the detector's mode and the clock when the
                        \* current call began, and the operation last called
    result,             \* history: what the current call returned (optional):
                        \* a DetectionResult, or a command (optional)
    typed,              \* history: the texts the current call put on
                        \* KeyboardOutput.output_queue, in order
    executed            \* history: the commands the current call executed

vadVars == <<silence_duration, min_audio_length, use_webrtcvad, is_speaking,
             silence_counter, audio_buffer, frames, last_ret, chunks_sent>>

kwVars == <<keyword, timeout_seconds, max_command_words, has_registry,
            current_mode, keyword_detected_time, commands>>

callVars == <<voice_commands_enabled, is_first_chunk, now, pc, text, call,
              result, typed, executed>>

koVars == <<xdotool_available, ko_is_running, workers, output_queue,
            previous_text, xdo, ko_taken>>

micVars == <<device_index, actual_sample_rate, mic_start, read_chunk_ret>>

beVars == <<status, error_message, start_ret, is_model_loaded, ac_is_running,
            capture_alive, is_recording, stream_open, tw_is_running, tw_alive,
            audio_queue, tw_audio, emitted, closed, stopping, stop_ret,
            tw_orphans, micVars>>

ctlVars == <<current_backend, sessions, get_status_ret>>

vars == <<vadVars, kwVars, koVars, callVars, beVars, ctlVars>>

None == <<>>
Some(x) == <<x>>

\* BackendStatus
STOPPED == "stopped"
RUNNING == "running"
STOPPING == "stopping"
ERROR == "error"

Max(a, b) == IF a >= b THEN a ELSE b
Min(a, b) == IF a <= b THEN a ELSE b

(***************************************************************************)
(* Bounds of the model.                                                    *)
(***************************************************************************)
MaxFrames == 6          \* frames (and resets) fed to the detector in one run
MaxEnergy == 2          \* frame energies are 0..MaxEnergy
MaxTime == 2            \* the clock runs from 0 to MaxTime
MaxKwWords == 3         \* words in a text given to process_text
MaxKwLen == 3           \* symbols in a text given to process_text
MaxUttWords == 4        \* words in a transcription result
MaxKoLen == 2           \* characters in a text given to type_text
MaxQueue == 1           \* type_text is called with fewer items than this
                        \* waiting in output_queue, stop() with no more
MaxWorkers == 2         \* threads started by KeyboardOutput.start
MaxUtt == 3             \* utterances the capture thread emits in one run
MaxSessions == 3        \* rows of the sessions table
MaxOrphans == 1         \* threads of replaced transcription workers
MaxWaiting == 2         \* a transcription result is handled with fewer items
                        \* than this waiting in output_queue

(***************************************************************************)
(* Text.  A text is a sequence of symbols; a symbol is one whitespace      *)
(* character, one punctuation character, or a group of letters that the    *)
(* model never splits ("tony", "enter").  Python's str operations are      *)
(* computed symbol by symbol, as the code computes them character by       *)
(* character.                                                              *)
(***************************************************************************)
\* c.isspace()
IsSpace(c) == c = " "

\* c in string.punctuation
IsPunct(c) == c = ","

\* c matches \w
IsWordChar(c) == ~IsSpace(c) /\ ~IsPunct(c)

\* str.lower() on one symbol; "TONY" and "ENTER" are the symbols in upper case.
\* No letter symbol of the model is a prefix of another, so that
\* str.startswith is the prefix relation on sequences of symbols.
LowerSym(c) == CASE c = "TONY" -> "tony" [] c = "ENTER" -> "enter" [] OTHER -> c

\* c is in [A-Z] / in [a-z] at its first and last character
IsUpper(c) == c \in {"TONY", "ENTER"}
IsLower(c) == IsWordChar(c) /\ ~IsUpper(c)

\* text.lower()
LowerText(t) == [i \in 1..Len(t) |-> LowerSym(t[i])]

\* text.lstrip() / text.rstrip() / text.strip()
RECURSIVE LStrip(_)
LStrip(t) == IF t /= <<>> /\ IsSpace(Head(t)) THEN LStrip(Tail(t)) ELSE t

RECURSIVE RStrip(_)
RStrip(t) ==
    IF t /= <<>> /\ IsSpace(t[Len(t)]) THEN RStrip(SubSeq(t, 1, Len(t) - 1)) ELSE t

Strip(t) == RStrip(LStrip(t))

\* not text.strip()
IsBlank(t) == Strip(t) = <<>>

\* text.split(): the maximal runs of non-whitespace symbols, in order
RECURSIVE SplitFrom(_, _, _)
SplitFrom(t, i, word) ==
    IF i > Len(t)
    THEN IF word = <<>> THEN <<>> ELSE <<word>>
    ELSE IF IsSpace(t[i])
         THEN IF word = <<>> THEN SplitFrom(t, i + 1, <<>>)
              ELSE <<word>> \o SplitFrom(t, i + 1, <<>>)
         ELSE SplitFrom(t, i + 1, Append(word, t[i]))

Split(t) == SplitFrom(t, 1, <<>>)

\* ' '.join(words)
RECURSIVE Join(_)
Join(words) ==
    IF words = <<>> THEN <<>>
    ELSE IF Len(words) = 1 THEN words[1]
    ELSE words[1] \o <<" ">> \o Join(Tail(words))

\* The regex assertion \b between positions i and i + 1 of t (0 <= i <= Len(t))
WordBoundary(t, i) ==
    (i >= 1 /\ IsWordChar(t[i])) /= (i < Len(t) /\ IsWordChar(t[i + 1]))

\* Mutant: the pattern without its \b assertions.
PatternMatchesAtNoBoundary(kw, t, p) ==
    /\ p >= 1
    /\ p + Len(kw) - 1 <= Len(t)
    /\ \A k \in 1..Len(kw) : LowerSym(t[p + k - 1]) = LowerSym(kw[k])

\* r'\b' + re.escape(kw) + r'\b' with re.IGNORECASE matches t at position p
PatternMatchesAt(kw, t, p) ==
    /\ p >= 1
    /\ p + Len(kw) - 1 <= Len(t)
    /\ \A k \in 1..Len(kw) : LowerSym(t[p + k - 1]) = LowerSym(kw[k])
    /\ WordBoundary(t, p - 1)
    /\ WordBoundary(t, p + Len(kw) - 1)

\* regex.search(t): the start of the leftmost match, 0 when there is none
RegexSearch(kw, t) ==
    LET hits == {p \in 1..Len(t) : PatternMatchesAt(kw, t, p)}
    IN  IF hits = {} THEN 0 ELSE CHOOSE p \in hits : \A q \in hits : p <= q

(***************************************************************************)
(* VoiceActivityDetector and AudioCapture                                  *)
(***************************************************************************)
sample_rate == 16000
frame_duration_ms == 30
chunk_size == 480

\* VoiceActivityDetector.energy_threshold, on the 0..MaxEnergy scale
energy_threshold == 1

\* int(silence_duration * 1000 / frame_duration_ms), silence_duration in s
silence_frames == silence_duration \div frame_duration_ms

\* int(self.min_audio_length * self.sample_rate)
min_samples == (min_audio_length * sample_rate) \div 1000

\* A frame as read_chunk returns it: chunk_size samples, of which the model
\* keeps the RMS energy and the verdict WebRTC VAD would give.
Frames == [energy : 0..MaxEnergy, voiced : BOOLEAN]

\* energy > self.energy_threshold
EnergyIsSpeech(frame) == frame.energy > energy_threshold

\* self.vad.is_speech(frame_bytes, self.sample_rate)
WebrtcIsSpeech(frame) == frame.voiced

IsSpeech(frame) ==
    IF use_webrtcvad THEN WebrtcIsSpeech(frame) ELSE EnergyIsSpeech(frame)

\* The buffer after self.audio_buffer.extend(audio_frame): the frame is
\* appended whatever its classification and whatever is_speaking.
ExtendBuffer(buf, id) == Append(buf, id)

\* Mutant: the comparison off by one.
SpeechEndedStrict(counter) == counter > silence_frames

\* silence_counter >= silence_frames
SpeechEnded(counter) == counter >= silence_frames

\* len(audio_chunk), in samples
ChunkLen(chunk) == Len(chunk) * chunk_size

\* len(audio_chunk) >= min_samples
LongEnough(chunk) == ChunkLen(chunk) >= min_samples

\* process_frame that leaves the buffer as it is when it returns the chunk
ProcessFrameKeepingBuffer(frame, id) ==
    LET speech == IsSpeech(frame)
        buf == ExtendBuffer(audio_buffer, id)
    IN  IF speech
        THEN [speaking |-> TRUE, counter |-> 0, buffer |-> buf,
              ret |-> [speech |-> TRUE, chunk |-> None]]
        ELSE IF is_speaking /\ SpeechEnded(silence_counter + 1)
             THEN [speaking |-> FALSE, counter |-> 0, buffer |-> buf,
                   ret |-> [speech |-> FALSE, chunk |-> Some(buf)]]
             ELSE [speaking |-> is_speaking,
                   counter |-> IF is_speaking THEN silence_counter + 1
                               ELSE silence_counter,
                   buffer |-> buf,
                   ret |-> [speech |-> FALSE, chunk |-> None]]

\* _process_webrtcvad_frame / _process_energy_frame: both branch the same way
\* on the verdict. Gives the new detector state and the returned pair.
ProcessFrame(frame, id) ==
    LET speech == IsSpeech(frame)
        buf == ExtendBuffer(audio_buffer, id)
    IN  IF speech
        THEN [speaking |-> TRUE, counter |-> 0, buffer |-> buf,
              ret |-> [speech |-> TRUE, chunk |-> None]]
        ELSE IF is_speaking
             THEN IF SpeechEnded(silence_counter + 1)
                  THEN [speaking |-> FALSE, counter |-> 0, buffer |-> <<>>,
                        ret |-> [speech |-> FALSE, chunk |-> Some(buf)]]
                  ELSE [speaking |-> TRUE, counter |-> silence_counter + 1,
                        buffer |-> buf,
                        ret |-> [speech |-> FALSE, chunk |-> None]]
             ELSE [speaking |-> FALSE, counter |-> silence_counter, buffer |-> buf,
                   ret |-> [speech |-> FALSE, chunk |-> None]]

\* One iteration of AudioCapture._capture_loop that read a frame: process_frame,
\* then on_audio_chunk for a non-empty chunk of at least min_samples.
CaptureLoopTurn(frame) ==
    /\ LET id == Len(frames) + 1
           r == ProcessFrame(frame, id)
       IN  /\ is_speaking' = r.speaking
           /\ silence_counter' = r.counter
           /\ audio_buffer' = r.buffer
           /\ last_ret' = r.ret
           /\ frames' = Append(frames, IF IsSpeech(frame)
                                       THEN "speech" ELSE "silence")
           /\ chunks_sent' =
                IF r.ret.chunk /= None /\ Len(r.ret.chunk[1]) > 0
                   /\ LongEnough(r.ret.chunk[1])
                THEN Append(chunks_sent, r.ret.chunk[1])
                ELSE chunks_sent
    /\ UNCHANGED <<silence_duration, min_audio_length, use_webrtcvad>>
    /\ UNCHANGED <<ctlVars, kwVars, koVars, callVars, beVars>>

\* The turns of _capture_loop explored with frames of any kind
CaptureLoop(frame) ==
    /\ Len(frames) < MaxFrames
    /\ CaptureLoopTurn(frame)

\* A run of speech followed by a run of silence, in frames: speech for 2 s
\* (66 frames of 30 ms, or 67 to reach 2 s) and silence for 1.2 s
SpeechRun == 2000 \div frame_duration_ms
SilenceRun == 1200 \div frame_duration_ms

\* The number of frames of kind k fed so far
Fed(k) == Cardinality({i \in 1..Len(frames) : frames[i] = k})

\* A turn of _capture_loop on the next frame of the run
CaptureRun ==
    \/ /\ Fed("silence") = 0
       /\ Fed("speech") <= SpeechRun
       /\ CaptureLoopTurn([energy |-> MaxEnergy, voiced |-> TRUE])
    \/ /\ Fed("speech") >= SpeechRun
       /\ Fed("silence") < SilenceRun
       /\ CaptureLoopTurn([energy |-> 0, voiced |-> FALSE])

\* VoiceActivityDetector.reset
VadReset ==
    /\ Len(frames) < MaxFrames
    /\ is_speaking' = FALSE
    /\ silence_counter' = 0
    /\ audio_buffer' = <<>>
    /\ frames' = Append(frames, "reset")
    /\ UNCHANGED <<silence_duration, min_audio_length, use_webrtcvad,
                   last_ret, chunks_sent>>
    /\ UNCHANGED <<ctlVars, kwVars, koVars, callVars, beVars>>

\* VoiceActivityDetector.__init__ and AudioCapture.__init__; silence_duration
\* and min_audio_length are unvalidated floats (core/config.py:40-42), in ms.
VadInit ==
    /\ silence_duration \in {20, 30, 60, 70}
    /\ min_audio_length \in {0, 60, 100}
    /\ use_webrtcvad \in BOOLEAN
    /\ is_speaking = FALSE
    /\ silence_counter = 0
    /\ audio_buffer = <<>>
    /\ frames = <<>>
    /\ last_ret = [speech |-> FALSE, chunk |-> None]
    /\ chunks_sent = <<>>

(***************************************************************************)
(* CommandRegistry                                                         *)
(***************************************************************************)
\* _register_builtin_commands: of the built-in names, those that the symbols
\* of the model can spell ('enter', 'selectall'); no text of the model equals
\* any other built-in name.
BuiltinCommands ==
    << [name |-> <<"enter">>, enabled |-> TRUE, custom |-> FALSE],
       [name |-> <<"select", "all">>, enabled |-> TRUE, custom |-> FALSE] >>

\* register_command(name, ...): self.commands[name.lower()] = command
RegisterCommand(reg, name) ==
    LET n == LowerText(name)
        entry == [name |-> n, enabled |-> TRUE, custom |-> TRUE]
    IN  IF \E i \in 1..Len(reg) : reg[i].name = n
        THEN [i \in 1..Len(reg) |-> IF reg[i].name = n THEN entry ELSE reg[i]]
        ELSE Append(reg, entry)

\* unregister_command(name): only a custom command is removed
UnregisterCommand(reg, name) ==
    LET n == LowerText(name)
    IN  SelectSeq(reg, LAMBDA c : ~(c.name = n /\ c.custom))

\* enable_command(name, enabled): the flag of the command of that name, if
\* there is one
EnableCommand(reg, name, enabled) ==
    LET n == LowerText(name)
    IN  [i \in 1..Len(reg) |->
            IF reg[i].name = n THEN [reg[i] EXCEPT !.enabled = enabled]
            ELSE reg[i]]

\* The registries explored: the built-in commands, and the built-in commands
\* with custom multi-word commands registered.
Registries ==
    { BuiltinCommands,
      RegisterCommand(BuiltinCommands, <<"select", " ", "all">>),
      RegisterCommand(RegisterCommand(BuiltinCommands, <<"select", " ", "all">>),
                      <<"select">>) }

\* get_command(name): self.commands.get(name.lower())
GetCommand(name) ==
    LET n == LowerText(name)
        hits == {i \in 1..Len(commands) : commands[i].name = n}
    IN  IF hits = {} THEN None ELSE Some(commands[CHOOSE i \in hits : TRUE])

(***************************************************************************)
(* KeywordDetector                                                         *)
(***************************************************************************)
NORMAL == "normal"
COMMAND_ACTIVE == "command_active"

\* DetectionResult(detected_keyword, command_candidate, remaining_text, mode);
\* its confidence field, which nothing in the program reads, is left out
DetectionResult(detected, command, remaining, mode) ==
    [detected_keyword |-> detected, command_candidate |-> command,
     remaining_text |-> remaining, mode |-> mode]

\* _detect_keyword: len(self.keyword_regex.findall(text)) > 0
DetectKeyword(t) == RegexSearch(keyword, t) > 0

\* _strip_punctuation_and_whitespace
RECURSIVE LStripPunct(_)
LStripPunct(t) ==
    IF t /= <<>> /\ (IsPunct(Head(t)) \/ IsSpace(Head(t)))
    THEN LStripPunct(Tail(t)) ELSE t

RECURSIVE RStripPunct(_)
RStripPunct(t) ==
    IF t /= <<>> /\ (IsPunct(t[Len(t)]) \/ IsSpace(t[Len(t)]))
    THEN RStripPunct(SubSeq(t, 1, Len(t) - 1)) ELSE t

StripPunctuationAndWhitespace(t) == RStripPunct(LStripPunct(t))

\* filler_words of _extract_multiword_command, as far as the symbols spell them
FillerWords == {<<"the">>}

\* while words and words[0].lower() in filler_words: words.pop(0)
RECURSIVE DropFillers(_)
DropFillers(words) ==
    IF words /= <<>> /\ LowerText(Head(words)) \in FillerWords
    THEN DropFillers(Tail(words)) ELSE words

\* The dictionary _extract_multiword_command returns for a match on the first
\* num_words words.
CommandWithRemaining(words, num_words) ==
    [command |-> LowerText(Join(SubSeq(words, 1, num_words))),
     remaining_text |-> IF num_words < Len(words)
                        THEN Some(Join(SubSeq(words, num_words + 1, Len(words))))
                        ELSE None]

\* Mutant: the cascade tried from the shortest candidate up.
RECURSIVE CascadeUp(_, _, _)
CascadeUp(words, num_words, max_words) ==
    IF num_words > max_words THEN None
    ELSE IF GetCommand(Join(SubSeq(words, 1, num_words))) /= None
         THEN Some(CommandWithRemaining(words, num_words))
         ELSE CascadeUp(words, num_words + 1, max_words)

CascadeShortestFirst(words, num_words) == CascadeUp(words, 1, num_words)

\* for num_words in range(max_words, 0, -1): the first candidate that
\* get_command finds, None when the range is exhausted
RECURSIVE Cascade(_, _)
Cascade(words, num_words) ==
    IF num_words = 0 THEN None
    ELSE IF GetCommand(LowerText(Join(SubSeq(words, 1, num_words)))) /= None
         THEN Some(CommandWithRemaining(words, num_words))
         ELSE Cascade(words, num_words - 1)

\* _extract_multiword_command that searches the registry in every case
ExtractMultiwordCommandInRegistry(t) ==
    LET rest == DropFillers(Split(t))
    IN  IF rest = <<>> THEN None
        ELSE Cascade(rest, Min(max_command_words, Len(rest)))

\* _extract_multiword_command(text)
ExtractMultiwordCommand(t) ==
    LET words == Split(t)
    IN  IF t = <<>> \/ ~has_registry
        THEN \* fallback to single word if no registry
             IF words /= <<>>
             THEN Some([command |-> words[1],
                        remaining_text |-> IF Len(words) > 1
                                           THEN Some(Join(Tail(words))) ELSE None])
             ELSE None
        ELSE IF words = <<>> THEN None
        ELSE LET rest == DropFillers(words)
             IN  IF rest = <<>> THEN None
                 ELSE Cascade(rest, Min(max_command_words, Len(rest)))

\* _extract_command_with_remaining(text, after_keyword)
ExtractCommandWithRemaining(t, after_keyword) ==
    IF after_keyword
    THEN LET p == RegexSearch(keyword, t)
         IN  IF p = 0 THEN None
             ELSE ExtractMultiwordCommand(
                      StripPunctuationAndWhitespace(
                          SubSeq(t, p + Len(keyword), Len(t))))
    ELSE ExtractMultiwordCommand(t)

\* Mutant: the detector left in command mode after a command.
ProcessCommandNoReset(command, remaining) ==
    [mode |-> COMMAND_ACTIVE, detected_time |-> Some(now),
     result |-> DetectionResult(TRUE, Some(command), remaining, NORMAL)]

\* _process_command: _reset_to_normal(), then the result
ProcessCommand(command, remaining) ==
    [mode |-> NORMAL, detected_time |-> None,
     result |-> DetectionResult(TRUE, Some(command), remaining, NORMAL)]

\* Mutant: command mode entered without its timestamp.
AwaitCommandNoTimestamp(current_time) ==
    [mode |-> COMMAND_ACTIVE, detected_time |-> None,
     result |-> DetectionResult(TRUE, None, None, COMMAND_ACTIVE)]

\* The keyword was detected and no command follows it: current_mode =
\* COMMAND_ACTIVE, keyword_detected_time = current_time, and the result
AwaitCommand(current_time) ==
    [mode |-> COMMAND_ACTIVE, detected_time |-> Some(current_time),
     result |-> DetectionResult(TRUE, None, None, COMMAND_ACTIVE)]

\* Mutant: the timeout reached at the limit.
TimedOutAtLimit(current_time) ==
    current_time - keyword_detected_time[1] >= timeout_seconds

\* current_time - self.keyword_detected_time > self.timeout_seconds
TimedOut(current_time) ==
    current_time - keyword_detected_time[1] > timeout_seconds

\* text_clean = text.lower().strip()
CleanText(t) == Strip(LowerText(t))

\* process_text(text): the detector's new mode and timestamp, and the result
ProcessText(t) ==
    LET text_clean == CleanText(t)
        current_time == now
    IN  IF current_mode = COMMAND_ACTIVE /\ TimedOut(current_time)
        THEN \* _reset_to_normal()
             [mode |-> NORMAL, detected_time |-> None,
              result |-> DetectionResult(FALSE, None, None, NORMAL)]
        ELSE IF current_mode = NORMAL
        THEN IF DetectKeyword(text_clean)
             THEN LET r == ExtractCommandWithRemaining(text_clean, TRUE)
                  IN  IF r /= None
                      THEN ProcessCommand(r[1].command, r[1].remaining_text)
                      ELSE AwaitCommand(current_time)
             ELSE [mode |-> current_mode, detected_time |-> keyword_detected_time,
                   result |-> DetectionResult(FALSE, None, None, current_mode)]
        ELSE LET r == ExtractCommandWithRemaining(text_clean, FALSE)
             IN  IF r /= None
                 THEN ProcessCommand(r[1].command, r[1].remaining_text)
                 ELSE [mode |-> current_mode,
                       detected_time |-> keyword_detected_time,
                       result |-> DetectionResult(FALSE, None, None, current_mode)]

(***************************************************************************)
(* CommandRegistry.find_matching_command and CommandExecutor               *)
(***************************************************************************)
\* a.startswith(b)
StartsWith(a, b) == Len(b) <= Len(a) /\ SubSeq(a, 1, Len(b)) = b

\* The entries of the variations table whose target is a built-in command of
\* the model: 'return' and 'returnkey', spelled with the symbols "ret", "urn"
\* and "key", stand for 'enter'.  No text of the model equals another key.
Variations ==
    { << <<"ret", "urn">>, <<"enter">> >>,
      << <<"ret", "urn", "key">>, <<"enter">> >> }

\* spoken_lower in variations and variations[spoken_lower] in self.commands:
\* the command, optional
VariationMatch(spoken_lower) ==
    LET hits == {v \in Variations : v[1] = spoken_lower /\ GetCommand(v[2]) /= None}
    IN  IF hits = {} THEN None ELSE GetCommand((CHOOSE v \in hits : TRUE)[2])

\* The partial matching: the first command in insertion order whose name
\* starts with the spoken text or is a start of it, optional
PartialMatch(spoken_lower) ==
    LET partial == {i \in 1..Len(commands) :
                        \/ StartsWith(commands[i].name, spoken_lower)
                        \/ StartsWith(spoken_lower, commands[i].name)}
    IN  IF partial /= {}
        THEN Some(commands[CHOOSE i \in partial : \A j \in partial : i <= j])
        ELSE None

\* find_matching_command with the partial matching before the variations
FindMatchingCommandPartialFirst(spoken_command) ==
    LET spoken_lower == Strip(LowerText(spoken_command))
    IN  IF GetCommand(spoken_lower) /= None THEN GetCommand(spoken_lower)
        ELSE IF PartialMatch(spoken_lower) /= None
             THEN PartialMatch(spoken_lower)
             ELSE VariationMatch(spoken_lower)

\* find_matching_command(spoken_command): the direct match, then the
\* variations table, then the partial matching.
FindMatchingCommand(spoken_command) ==
    LET spoken_lower == Strip(LowerText(spoken_command))
    IN  IF GetCommand(spoken_lower) /= None THEN GetCommand(spoken_lower)
        ELSE IF VariationMatch(spoken_lower) /= None
             THEN VariationMatch(spoken_lower)
             ELSE PartialMatch(spoken_lower)

\* execute_command without the check of xdotool_available
ExecuteCommandUnchecked(command_action) == command_action.enabled

\* execute_command without the check of the enabled flag
ExecuteCommandWhateverEnabled(command_action) == xdotool_available

\* execute_command(command_action): True when the keys were sent
ExecuteCommand(command_action) == xdotool_available /\ command_action.enabled

(***************************************************************************)
(* TextProcessor                                                           *)
(***************************************************************************)
\* re.sub(r'(,)([A-Za-z...])', r'\1 \2', text)
RECURSIVE SpaceAfterComma(_)
SpaceAfterComma(t) ==
    IF Len(t) < 2 THEN t
    ELSE IF IsPunct(t[1]) /\ IsWordChar(t[2])
         THEN <<t[1], " ">> \o SpaceAfterComma(Tail(t))
         ELSE <<t[1]>> \o SpaceAfterComma(Tail(t))

\* re.sub(r'([a-z...])([A-Z...])', r'\1 \2', text)
RECURSIVE SpaceBeforeUpper(_)
SpaceBeforeUpper(t) ==
    IF Len(t) < 2 THEN t
    ELSE IF IsLower(t[1]) /\ IsUpper(t[2])
         THEN <<t[1], " ">> \o SpaceBeforeUpper(Tail(t))
         ELSE <<t[1]>> \o SpaceBeforeUpper(Tail(t))

\* _normalize_punctuation_spacing; "," is the punctuation of the model
NormalizePunctuationSpacing(t) == SpaceBeforeUpper(SpaceAfterComma(t))

\* TextProcessor.process_text.  No text over the symbols of the model holds a
\* key of text_replacements or of punctuation_map, so what is left is the
\* normalization and ' '.join(processed.split()).
TextProcessorProcessText(t) ==
    IF t = <<>> THEN t ELSE Join(Split(NormalizePunctuationSpacing(t)))

(***************************************************************************)
(* KeyboardOutput                                                          *)
(***************************************************************************)
\* for i in range(min_len): if text[i] != previous_text[i]: match_index = i;
\* break / else: match_index = min_len   (i counts from 0)
RECURSIVE MatchIndexFrom(_, _, _)
MatchIndexFrom(t, previous, i) ==
    IF i >= Min(Len(t), Len(previous)) THEN Min(Len(t), Len(previous))
    ELSE IF t[i + 1] /= previous[i + 1] THEN i
    ELSE MatchIndexFrom(t, previous, i + 1)

MatchIndex(t, previous) == MatchIndexFrom(t, previous, 0)

\* _delete_characters(count): one xdotool key call with count BackSpace
DeleteCharacters(count) ==
    IF count <= 0 THEN <<>>
    ELSE << [op |-> "key", key |-> "BackSpace", count |-> count, text |-> <<>>] >>

\* _type_text_immediate(text): one xdotool type call, skipped for blank text
TypeTextImmediate(t) ==
    IF IsBlank(t) THEN <<>>
    ELSE << [op |-> "type", key |-> "", count |-> 0, text |-> t] >>

\* _type_text_with_correction with the diff taken whatever enable_correction is
TypeTextAlwaysCorrecting(t, enable_correction) ==
    IF IsBlank(t) THEN [ops |-> <<>>, previous |-> previous_text]
    ELSE LET match_index == MatchIndex(t, previous_text)
             chars_to_delete == Len(previous_text) - match_index
             new_text == SubSeq(t, match_index + 1, Len(t))
         IN  [ops |-> DeleteCharacters(chars_to_delete)
                      \o (IF new_text /= <<>> THEN TypeTextImmediate(new_text)
                          ELSE <<>>),
              previous |-> t]

\* _type_text_with_correction(text, enable_correction): the operations issued
\* and the new previous_text
TypeTextWithCorrection(t, enable_correction) ==
    IF IsBlank(t) THEN [ops |-> <<>>, previous |-> previous_text]
    ELSE IF enable_correction /\ previous_text /= <<>>
    THEN LET match_index == MatchIndex(t, previous_text)
             chars_to_delete == Len(previous_text) - match_index
             new_text == SubSeq(t, match_index + 1, Len(t))
         IN  [ops |-> DeleteCharacters(chars_to_delete)
                      \o (IF new_text /= <<>> THEN TypeTextImmediate(new_text)
                          ELSE <<>>),
              previous |-> t]
    ELSE [ops |-> TypeTextImmediate(t), previous |-> t]

\* type_text(text, enable_correction): the queue after the call
QueueAfterTypeText(q, t, enable_correction) ==
    IF xdotool_available /\ ko_is_running
    THEN Append(q, Some([text |-> t, enable_correction |-> enable_correction]))
    ELSE q

(***************************************************************************)
(* WhisperBackend._on_transcription_result                                 *)
(***************************************************************************)
\* Mutant: the text up to the end of the keyword.
ExtractTextThroughKeyword(t, kw) ==
    LET p == RegexSearch(LowerText(kw), LowerText(t))
    IN  IF p > 0 THEN Strip(SubSeq(t, 1, p + Len(kw) - 1)) ELSE <<>>

\* _extract_text_before_keyword(text, keyword)
ExtractTextBeforeKeyword(t, kw) ==
    LET p == RegexSearch(LowerText(kw), LowerText(t))
    IN  IF p > 0 THEN Strip(SubSeq(t, 1, p - 1)) ELSE <<>>

\* "Add space before chunk (except for first chunk)"
SpaceBeforeChunk(processed, first) ==
    IF ~first THEN <<" ">> \o processed ELSE processed

\* The type_text call for the text before the keyword, if any is made:
\* the arguments of the calls, and is_first_chunk afterwards
TypeTextBefore(t) ==
    LET text_before_keyword == ExtractTextBeforeKeyword(t, keyword)
    IN  IF ~IsBlank(text_before_keyword)
        THEN [puts |-> << [text |-> SpaceBeforeChunk(
                                        TextProcessorProcessText(text_before_keyword),
                                        is_first_chunk),
                           enable_correction |-> FALSE] >>,
              first |-> FALSE]
        ELSE [puts |-> <<>>, first |-> is_first_chunk]

\* The type_text call for the text after the command, if any is made
TypeTextRemaining(remaining) ==
    IF remaining /= None /\ ~IsBlank(remaining[1])
    THEN << [text |-> <<" ">> \o TextProcessorProcessText(Strip(remaining[1])),
             enable_correction |-> FALSE] >>
    ELSE <<>>

\* find_matching_command and execute_command: the commands whose keys are sent
ExecuteCandidate(candidate) ==
    LET command == FindMatchingCommand(candidate)
    IN  IF command /= None /\ ExecuteCommand(command[1])
        THEN <<command[1].name>> ELSE <<>>

\* "Process the text normally (no command detected)"
TypeTextNormally(t) ==
    [puts |-> << [text |-> SpaceBeforeChunk(TextProcessorProcessText(t),
                                            is_first_chunk),
                  enable_correction |-> FALSE] >>,
     first |-> FALSE]

\* _on_transcription_result(result): the detector afterwards, the
\* DetectionResult if process_text was called, is_first_chunk afterwards, the
\* type_text calls made and the commands executed
HandleTranscriptionResult(t) ==
    LET unchanged == [mode |-> current_mode,
                      detected_time |-> keyword_detected_time]
    IN  IF IsBlank(t)
        THEN [detector |-> unchanged, result |-> None, first |-> is_first_chunk,
              puts |-> <<>>, executed |-> <<>>]
        ELSE IF voice_commands_enabled
        THEN LET d == ProcessText(LowerText(t))
                 detector == [mode |-> d.mode, detected_time |-> d.detected_time]
             IN  IF d.result.detected_keyword
                 THEN LET before == TypeTextBefore(t)
                      IN  IF d.result.command_candidate /= None
                          THEN [detector |-> detector, result |-> Some(d.result),
                                first |-> before.first,
                                puts |-> before.puts
                                         \o TypeTextRemaining(d.result.remaining_text),
                                executed |-> ExecuteCandidate(
                                                 d.result.command_candidate[1])]
                          ELSE [detector |-> detector, result |-> Some(d.result),
                                first |-> before.first, puts |-> before.puts,
                                executed |-> <<>>]
                 ELSE [detector |-> detector, result |-> Some(d.result),
                       first |-> TypeTextNormally(t).first,
                       puts |-> TypeTextNormally(t).puts, executed |-> <<>>]
        ELSE [detector |-> unchanged, result |-> None,
              first |-> TypeTextNormally(t).first,
              puts |-> TypeTextNormally(t).puts, executed |-> <<>>]

\* The queue after the type_text calls of one handler run
RECURSIVE QueueAfterPuts(_, _)
QueueAfterPuts(q, puts) ==
    IF puts = <<>> THEN q
    ELSE QueueAfterPuts(QueueAfterTypeText(q, Head(puts).text,
                                           Head(puts).enable_correction),
                        Tail(puts))

(***************************************************************************)
(* The inputs explored                                                     *)
(***************************************************************************)
\* The texts of at most k words of W, joined by single spaces
WordTexts(W, k) == {Join(ws) : ws \in UNION {[1..n -> W] : n \in 0..k}}

\* The texts of at most k symbols of A
SymbolTexts(A, k) == UNION {[1..n -> A] : n \in 0..k}

\* Texts given to process_text
KwTexts ==
    WordTexts({<<"tony">>, <<"the">>, <<"select">>, <<"all">>, <<"enter">>},
              MaxKwWords)
        \cup SymbolTexts({"tony", "TONY", "x", " ", ","}, MaxKwLen)

\* Texts the transcriber returns: ' '.join(text_parts).strip()
UttTexts ==
    WordTexts({<<"hola", ",", "hola">>, <<"TONY">>, <<"enter">>}, MaxUttWords)

\* Texts given to KeyboardOutput.type_text
KoTexts == SymbolTexts({"x", "y", " "}, MaxKoLen)

\* Arguments of update_keyword
NewKeywords == {<<"TONY">>, <<"enter", " ">>}

(***************************************************************************)
(* Actions: KeywordDetector                                                *)
(***************************************************************************)
\* No call is in progress.
NoCall == [op |-> "none", mode |-> NORMAL, time |-> 0, detected_time |-> None]

\* A caller is about to pass t to operation op.
Submit(t, op) ==
    /\ pc = "idle"
    /\ pc' = "pending"
    /\ text' = t
    /\ call' = [op |-> op, mode |-> current_mode, time |-> now,
                detected_time |-> keyword_detected_time]
    /\ result' = None
    /\ typed' = <<>>
    /\ executed' = <<>>
    /\ UNCHANGED <<ctlVars, beVars, vadVars, kwVars, koVars, voice_commands_enabled,
                   is_first_chunk, now>>

\* KeywordDetector.process_text(text)
ProcessTextCall ==
    /\ pc = "pending"
    /\ call.op = "process_text"
    /\ \E d \in {ProcessText(text)} :
           /\ current_mode' = d.mode
           /\ keyword_detected_time' = d.detected_time
           /\ result' = Some(d.result)
    /\ pc' = "done"
    /\ UNCHANGED <<ctlVars, beVars, vadVars, koVars, keyword, timeout_seconds, max_command_words,
                   has_registry, commands, voice_commands_enabled,
                   is_first_chunk, now, text, call, typed, executed>>

\* The operation has returned.
Return ==
    /\ pc = "done"
    /\ pc' = "idle"
    /\ text' = <<>>
    /\ result' = None
    /\ typed' = <<>>
    /\ executed' = <<>>
    /\ call' = NoCall
    /\ UNCHANGED <<ctlVars, beVars, vadVars, kwVars, koVars, voice_commands_enabled,
                   is_first_chunk, now>>

\* CommandRegistry.find_matching_command(text)
FindMatchingCommandCall ==
    /\ pc = "pending"
    /\ call.op = "find_matching_command"
    /\ result' = Some(FindMatchingCommand(text))
    /\ pc' = "done"
    /\ UNCHANGED <<ctlVars, beVars, vadVars, kwVars, koVars, voice_commands_enabled,
                   is_first_chunk, now, text, call, typed, executed>>

\* CommandRegistry.register_command(name, ...)
RegisterCommandCall(name) ==
    /\ pc = "idle"
    /\ commands' = RegisterCommand(commands, name)
    /\ UNCHANGED <<ctlVars, beVars, vadVars, koVars, callVars, keyword, timeout_seconds,
                   max_command_words, has_registry, current_mode,
                   keyword_detected_time>>

\* CommandRegistry.unregister_command(name)
UnregisterCommandCall(name) ==
    /\ pc = "idle"
    /\ commands' = UnregisterCommand(commands, name)
    /\ UNCHANGED <<ctlVars, beVars, vadVars, koVars, callVars, keyword, timeout_seconds,
                   max_command_words, has_registry, current_mode,
                   keyword_detected_time>>

\* CommandRegistry.enable_command(name, enabled)
EnableCommandCall(name, enabled) ==
    /\ pc = "idle"
    /\ commands' = EnableCommand(commands, name, enabled)
    /\ UNCHANGED <<ctlVars, beVars, vadVars, koVars, callVars, keyword,
                   timeout_seconds, max_command_words, has_registry,
                   current_mode, keyword_detected_time>>

\* time.time() advances.
Tick ==
    /\ pc = "idle"
    /\ now < MaxTime
    /\ now' = now + 1
    /\ UNCHANGED <<ctlVars, beVars, vadVars, kwVars, koVars, voice_commands_enabled,
                   is_first_chunk, pc, text, call, result, typed, executed>>

\* KeywordDetector.reset()
Reset ==
    /\ pc = "idle"
    /\ current_mode' = NORMAL
    /\ keyword_detected_time' = None
    /\ UNCHANGED <<ctlVars, beVars, vadVars, koVars, keyword, timeout_seconds, max_command_words,
                   has_registry, commands, voice_commands_enabled,
                   is_first_chunk, now, pc, text, call, result, typed, executed>>

\* KeywordDetector.update_keyword(keyword)
UpdateKeyword(k) ==
    /\ pc = "idle"
    /\ keyword' = Strip(LowerText(k))
    /\ current_mode' = NORMAL
    /\ keyword_detected_time' = None
    /\ UNCHANGED <<ctlVars, beVars, vadVars, koVars, timeout_seconds, max_command_words,
                   has_registry, commands, voice_commands_enabled,
                   is_first_chunk, now, pc, text, call, result, typed, executed>>

\* KeywordDetector.update_timeout(timeout_seconds)
UpdateTimeout(t) ==
    /\ pc = "idle"
    /\ timeout_seconds' = Max(1, Min(10, t))
    /\ UNCHANGED <<ctlVars, beVars, vadVars, koVars, keyword, max_command_words, has_registry,
                   current_mode, keyword_detected_time, commands,
                   voice_commands_enabled, is_first_chunk, now, pc, text,
                   call, result, typed, executed>>

(***************************************************************************)
(* Actions: WhisperBackend and KeyboardOutput                              *)
(***************************************************************************)
\* WhisperBackend._on_transcription_result(result)
OnTranscriptionResult ==
    /\ pc = "pending"
    /\ call.op = "on_transcription_result"
    /\ \E h \in {HandleTranscriptionResult(text)} :
           /\ current_mode' = h.detector.mode
           /\ keyword_detected_time' = h.detector.detected_time
           /\ result' = h.result
           /\ is_first_chunk' = h.first
           /\ output_queue' = QueueAfterPuts(output_queue, h.puts)
           /\ typed' = IF xdotool_available /\ ko_is_running THEN h.puts ELSE <<>>
           /\ executed' = h.executed
    /\ pc' = "done"
    /\ UNCHANGED <<ctlVars, beVars, vadVars, keyword, timeout_seconds, max_command_words,
                   has_registry, commands, xdotool_available, ko_is_running,
                   workers, previous_text, xdo, ko_taken,
                   voice_commands_enabled, now, text, call>>

\* KeyboardOutput.start()
KoStart ==
    /\ xdotool_available
    /\ ~ko_is_running
    /\ workers < MaxWorkers
    /\ ko_is_running' = TRUE
    /\ workers' = workers + 1
    /\ UNCHANGED <<ctlVars, beVars, vadVars, kwVars, callVars, xdotool_available, output_queue,
                   previous_text, xdo, ko_taken>>

\* KeyboardOutput.stop(): the flag, the sentinel, and after the join the reset
\* of previous_text; the worker is between two items
KoStop ==
    /\ ko_is_running
    /\ Len(output_queue) <= MaxQueue
    /\ ko_is_running' = FALSE
    /\ output_queue' = Append(output_queue, None)
    /\ previous_text' = <<>>
    /\ UNCHANGED <<ctlVars, beVars, vadVars, kwVars, callVars, xdotool_available, workers, xdo,
                   ko_taken>>

\* KeyboardOutput.type_text(text, enable_correction)
TypeText(t, enable_correction) ==
    /\ xdotool_available /\ ko_is_running
    /\ output_queue' = QueueAfterTypeText(output_queue, t, enable_correction)
    /\ UNCHANGED <<ctlVars, beVars, vadVars, kwVars, callVars, xdotool_available, ko_is_running,
                   workers, previous_text, xdo, ko_taken>>

\* One turn of _output_loop in a worker thread: the loop ends when is_running
\* is false or the item is the sentinel, otherwise the item is typed.
OutputLoop ==
    /\ workers > 0
    /\ ~ko_is_running \/ output_queue /= <<>>
    /\ IF ~ko_is_running
       THEN /\ workers' = workers - 1
            /\ UNCHANGED <<output_queue, previous_text, xdo, ko_taken>>
       ELSE LET item == Head(output_queue)
            IN  /\ output_queue' = Tail(output_queue)
                /\ IF item = None
                   THEN /\ workers' = workers - 1
                        /\ UNCHANGED <<previous_text, xdo, ko_taken>>
                   ELSE LET r == TypeTextWithCorrection(item[1].text,
                                                        item[1].enable_correction)
                        IN  /\ xdo' = r.ops
                            /\ ko_taken' = Some([text |-> item[1].text,
                                                 enable_correction |->
                                                     item[1].enable_correction,
                                                 previous |-> previous_text])
                            /\ previous_text' = r.previous
                            /\ UNCHANGED workers
    /\ UNCHANGED <<ctlVars, beVars, vadVars, kwVars, callVars, xdotool_available, ko_is_running>>

\* KeyboardOutput.reset_correction_state()
ResetCorrectionState ==
    /\ previous_text /= <<>>
    /\ previous_text' = <<>>
    /\ UNCHANGED <<ctlVars, beVars, vadVars, kwVars, callVars, xdotool_available, ko_is_running,
                   workers, output_queue, xdo, ko_taken>>

\* KeyboardOutput.type_immediate(text): the operations issued
TypeImmediateOps(t) == IF xdotool_available THEN TypeTextImmediate(t) ELSE <<>>

\* KeyboardOutput.simulate_key_press(key): the operations issued
SimulateKeyPressOps(key) ==
    IF xdotool_available
    THEN << [op |-> "key", key |-> key, count |-> 1, text |-> <<>>] >>
    ELSE <<>>

\* CommandExecutor.execute_command(command_action): the operations issued,
\* the keys of the command being named by the command
ExecuteCommandOps(command_action) ==
    IF ExecuteCommand(command_action)
    THEN << [op |-> "key", key |-> "keys", count |-> 1,
             text |-> command_action.name] >>
    ELSE <<>>

\* KeyboardOutput.type_immediate(text), called from outside the threads
TypeImmediate(t) ==
    /\ xdo' = TypeImmediateOps(t)
    /\ UNCHANGED <<ctlVars, beVars, vadVars, kwVars, callVars, xdotool_available,
                   ko_is_running, workers, output_queue, previous_text,
                   ko_taken>>

\* KeyboardOutput.simulate_key_press(key), called from outside the threads
SimulateKeyPress(key) ==
    /\ xdo' = SimulateKeyPressOps(key)
    /\ UNCHANGED <<ctlVars, beVars, vadVars, kwVars, callVars, xdotool_available,
                   ko_is_running, workers, output_queue, previous_text,
                   ko_taken>>

\* CommandExecutor.execute_command(command_action) for a command of the
\* registry, called from outside the threads
ExecuteCommandCall(command_action) ==
    /\ xdo' = ExecuteCommandOps(command_action)
    /\ UNCHANGED <<ctlVars, beVars, vadVars, kwVars, callVars, xdotool_available,
                   ko_is_running, workers, output_queue, previous_text,
                   ko_taken>>

(***************************************************************************)
(* WhisperBackend: start, stop, and the capture and transcription threads  *)
(***************************************************************************)
\* queue.Queue(): maxsize 0, a queue that is never full
maxsize == 0

\* A queue of one item
FullAtOne(q) == 1 <= Len(q)

\* Queue.full(): put blocks while it is true
Full(q) == 0 < maxsize /\ maxsize <= Len(q)

\* The sentinel that stop() puts on audio_queue
Sentinel == 0

\* add_audio with the utterance put in front of the queue
AddAudioInFront(q, audio) == IF tw_is_running THEN <<audio>> \o q ELSE q

\* TranscriptionWorker.add_audio(audio): the queue after the call
AddAudio(q, audio) == IF tw_is_running THEN Append(q, audio) ELSE q

\* MicrophoneStream.start() that returns when the stream cannot be opened
MicrophoneStreamStartQuietly(can_open) ==
    [is_recording |-> TRUE, stream_open |-> can_open, raised |-> FALSE]

\* MicrophoneStream.start() on a new stream: is_recording is set, then the
\* stream is opened, at the target rate or at the device's native rate; the
\* exception of the last attempt is raised when none opens.
MicrophoneStreamStart(can_open) ==
    [is_recording |-> TRUE, stream_open |-> can_open, raised |-> ~can_open]

\* WhisperBackend._on_error(error_message): the status after the call
OnError == [status |-> ERROR, error_message |-> TRUE]

\* The threads of the session before are gone or will do nothing more: start
\* replaces the AudioCapture and the TranscriptionWorker with new objects.
Quiescent ==
    /\ ~capture_alive
    /\ pc = "idle"
    /\ tw_alive => audio_queue = <<>>

\* WhisperBackend.start(language) returning False with status ERROR
StartFails ==
    /\ status' = ERROR
    /\ error_message' = TRUE
    /\ start_ret' = Some(FALSE)

\* WhisperBackend.start(language): load_ok, language_ok and can_open are the
\* outcomes of load_model, supports_language and of opening the microphone.
BackendStart(load_ok, language_ok, can_open) ==
    /\ Quiescent
    /\ ~stopping
    /\ workers < MaxWorkers
    /\ tw_alive => tw_orphans < MaxOrphans
    /\ Len(output_queue) < MaxWaiting
    /\ stop_ret' = None
    /\ IF status = ERROR \/ status = RUNNING
       THEN /\ start_ret' = Some(status = RUNNING)
            /\ UNCHANGED <<status, error_message, is_model_loaded, koVars,
                           ac_is_running, capture_alive, is_recording,
                           stream_open, tw_is_running, tw_alive, audio_queue,
                           tw_audio, is_first_chunk, tw_orphans>>
       ELSE IF ~is_model_loaded /\ ~load_ok
       THEN /\ StartFails
            /\ UNCHANGED <<is_model_loaded, koVars, ac_is_running,
                           capture_alive, is_recording, stream_open,
                           tw_is_running, tw_alive, audio_queue, tw_audio,
                           is_first_chunk, tw_orphans>>
       ELSE IF ~language_ok \/ ~xdotool_available
       THEN /\ StartFails
            /\ is_model_loaded' = TRUE
            /\ UNCHANGED <<koVars, ac_is_running, capture_alive, is_recording,
                           stream_open, tw_is_running, tw_alive, audio_queue,
                           tw_audio, is_first_chunk, tw_orphans>>
       ELSE \E mic \in {MicrophoneStreamStart(can_open)} :
            /\ is_model_loaded' = TRUE
            \* keyboard_output.start(), reset_correction_state()
            /\ ko_is_running' = TRUE
            /\ workers' = IF ko_is_running THEN workers ELSE workers + 1
            /\ previous_text' = <<>>
            /\ UNCHANGED <<xdotool_available, output_queue, xdo, ko_taken>>
            \* TranscriptionWorker(...).start(language): a thread of the
            \* worker it replaces lives on, nothing stops it any more
            /\ tw_orphans' = IF tw_alive THEN tw_orphans + 1 ELSE tw_orphans
            /\ tw_is_running' = TRUE
            /\ tw_alive' = TRUE
            /\ audio_queue' = <<>>
            /\ tw_audio' = 0
            \* AudioCapture(...).start()
            /\ ac_is_running' = TRUE
            /\ is_recording' = mic.is_recording
            /\ stream_open' = mic.stream_open
            /\ IF mic.raised
               THEN /\ StartFails
                    /\ UNCHANGED <<capture_alive, is_first_chunk>>
               ELSE /\ capture_alive' = TRUE
                    /\ is_first_chunk' = TRUE
                    /\ status' = RUNNING
                    /\ error_message' = FALSE
                    /\ start_ret' = Some(TRUE)
    /\ UNCHANGED <<ctlVars, vadVars, kwVars, voice_commands_enabled, now, pc,
                   text, call, result, typed, executed, emitted, closed,
                   stopping, micVars>>

\* WhisperBackend.stop().  On a backend that is not running it returns True
\* at once.  On a running backend, as far as the joins: AudioCapture.stop()
\* with MicrophoneStream.stop(), TranscriptionWorker.stop() and
\* KeyboardOutput.stop(); every join has a timeout, the threads may live on
\* and call back while stop goes on.
BackendStop ==
    /\ ~stopping
    /\ IF status /= RUNNING
       THEN /\ stop_ret' = Some(TRUE)
            /\ UNCHANGED <<stopping, status, error_message, ac_is_running,
                           is_recording, stream_open, tw_is_running,
                           audio_queue, ko_is_running, output_queue,
                           previous_text, closed>>
       ELSE /\ stop_ret' = None
            /\ stopping' = TRUE
            /\ status' = STOPPING
            /\ error_message' = FALSE
            /\ ac_is_running' = FALSE
            /\ is_recording' = FALSE
            /\ stream_open' = FALSE
            /\ tw_is_running' = FALSE
            /\ audio_queue' = Append(audio_queue, Sentinel)
            /\ ko_is_running' = FALSE
            /\ output_queue' = IF ko_is_running THEN Append(output_queue, None)
                               ELSE output_queue
            /\ previous_text' = IF ko_is_running THEN <<>> ELSE previous_text
            /\ closed' = <<"microphone", "transcription_worker",
                           "keyboard_output">>
    /\ UNCHANGED <<ctlVars, vadVars, kwVars, callVars, xdotool_available,
                   workers, xdo, ko_taken, start_ret, is_model_loaded,
                   capture_alive, tw_alive, tw_audio, emitted, tw_orphans,
                   micVars>>

\* The rest of WhisperBackend.stop(): unload_model() and
\* _set_status(STOPPED), whatever the status has become meanwhile, and
\* return True
BackendStopReturn ==
    /\ stopping
    /\ stopping' = FALSE
    /\ is_model_loaded' = FALSE
    /\ status' = STOPPED
    /\ error_message' = FALSE
    /\ stop_ret' = Some(TRUE)
    /\ UNCHANGED <<ctlVars, vadVars, kwVars, koVars, callVars, start_ret,
                   ac_is_running, capture_alive, is_recording, stream_open,
                   tw_is_running, tw_alive, audio_queue, tw_audio, emitted,
                   closed, tw_orphans, micVars>>

\* WhisperBackend.reset_error_state(); cuda: the last error was CUDA out of
\* memory, for which the model is unloaded
ResetErrorState(cuda) ==
    /\ status = ERROR
    /\ ~stopping
    /\ status' = STOPPED
    /\ error_message' = FALSE
    /\ is_first_chunk' = TRUE
    /\ is_model_loaded' = (is_model_loaded /\ ~cuda)
    /\ UNCHANGED <<ctlVars, vadVars, kwVars, koVars, voice_commands_enabled, now, pc,
                   text, call, result, typed, executed, start_ret,
                   ac_is_running, capture_alive, is_recording, stream_open,
                   tw_is_running, tw_alive, audio_queue, tw_audio, emitted,
                   closed, stopping, stop_ret, tw_orphans, micVars>>

\* A turn of _capture_loop in which process_frame completes an utterance of
\* min_audio_length or more: WhisperBackend._on_audio_chunk(audio_chunk)
OnAudioChunk ==
    /\ capture_alive /\ ac_is_running
    /\ emitted < MaxUtt
    /\ tw_is_running => ~Full(audio_queue)
    /\ emitted' = emitted + 1
    /\ audio_queue' = AddAudio(audio_queue, emitted + 1)
    /\ UNCHANGED <<ctlVars, vadVars, kwVars, koVars, callVars, status, error_message,
                   start_ret, is_model_loaded, ac_is_running, capture_alive,
                   is_recording, stream_open, tw_is_running, tw_alive,
                   tw_audio, closed, stopping, stop_ret, tw_orphans, micVars>>

\* _capture_loop ends when AudioCapture.is_running is false.
CaptureLoopExit ==
    /\ capture_alive /\ ~ac_is_running
    /\ capture_alive' = FALSE
    /\ UNCHANGED <<ctlVars, vadVars, kwVars, koVars, callVars, status, error_message,
                   start_ret, is_model_loaded, ac_is_running, is_recording,
                   stream_open, tw_is_running, tw_alive, audio_queue, tw_audio,
                   emitted, closed, stopping, stop_ret, tw_orphans, micVars>>

\* The head of _worker_loop: the loop ends when is_running is false or the
\* item taken is the sentinel, otherwise the utterance taken is transcribed.
WorkerLoop ==
    /\ tw_alive
    /\ pc = "idle"
    /\ ~tw_is_running \/ audio_queue /= <<>>
    /\ IF ~tw_is_running
       THEN /\ tw_alive' = FALSE
            /\ UNCHANGED <<audio_queue, tw_audio, pc>>
       ELSE /\ audio_queue' = Tail(audio_queue)
            /\ IF Head(audio_queue) = Sentinel
               THEN /\ tw_alive' = FALSE
                    /\ UNCHANGED <<tw_audio, pc>>
               ELSE /\ tw_audio' = Head(audio_queue)
                    /\ pc' = "transcribing"
                    /\ UNCHANGED tw_alive
    /\ UNCHANGED <<ctlVars, vadVars, kwVars, koVars, voice_commands_enabled,
                   is_first_chunk, now, text, call, result, typed, executed,
                   status, error_message, start_ret, is_model_loaded,
                   ac_is_running, capture_alive, is_recording, stream_open,
                   tw_is_running, emitted, closed, stopping, stop_ret, tw_orphans, micVars>>

\* transcriber.transcribe(audio, language) returns a result with text t:
\* _worker_loop is about to call on_result(result).
Transcribe(t) ==
    /\ pc = "transcribing"
    /\ pc' = "pending"
    /\ text' = t
    /\ call' = [op |-> "on_transcription_result", mode |-> current_mode,
                time |-> now, detected_time |-> keyword_detected_time]
    /\ result' = None
    /\ typed' = <<>>
    /\ executed' = <<>>
    /\ UNCHANGED <<ctlVars, beVars, vadVars, kwVars, koVars, voice_commands_enabled,
                   is_first_chunk, now>>

\* transcriber.transcribe(audio, language) returns None: _worker_loop calls
\* on_error("Transcription failed") and goes on with the next utterance.
TranscribeFails ==
    /\ pc = "transcribing"
    /\ pc' = "idle"
    /\ status' = OnError.status
    /\ error_message' = OnError.error_message
    /\ UNCHANGED <<ctlVars, vadVars, kwVars, koVars, voice_commands_enabled,
                   is_first_chunk, now, text, call, result, typed, executed,
                   start_ret, is_model_loaded, ac_is_running, capture_alive,
                   is_recording, stream_open, tw_is_running, tw_alive,
                   audio_queue, tw_audio, emitted, closed,
                   stopping, stop_ret, tw_orphans, micVars>>

(***************************************************************************)
(* MicrophoneStream: opening the stream and reading chunks                 *)
(***************************************************************************)
\* MicrophoneStream.target_sample_rate: the rate Whisper wants
target_sample_rate == sample_rate

\* The device indexes the run selects: none (the default device) or a device
DeviceIndexes == {None, Some(0), Some(1)}

\* _get_device_native_sample_rate(device_index)
GetDeviceNativeSampleRate(index, reported) ==
    IF index = None THEN None ELSE reported

\* The retry rule of start without the test for a rate other than the target
RetriesAtAnyKnownRate(index, native_rate) ==
    index /= None /\ native_rate /= None

\* start retries at native_rate: a device is selected, its native rate is
\* known and is not the target rate
Retries(index, native_rate) ==
    /\ index /= None
    /\ native_rate /= None
    /\ native_rate /= Some(target_sample_rate)

\* The part of MicrophoneStream.start() that opens the stream; target_ok and
\* native_ok are the outcomes of audio.open at the target rate and at the
\* native rate, reported is what the device reports as its rate.
MicrophoneStreamOpen(index, actual, target_ok, reported, native_ok) ==
    IF target_ok
    THEN [stream_open |-> TRUE, actual_sample_rate |-> target_sample_rate,
          opened |-> <<target_sample_rate>>, raised |-> FALSE]
    ELSE IF Retries(index, GetDeviceNativeSampleRate(index, reported))
    THEN [stream_open |-> native_ok,
          actual_sample_rate |-> IF native_ok THEN reported[1] ELSE actual,
          opened |-> <<target_sample_rate, reported[1]>>,
          raised |-> ~native_ok]
    ELSE [stream_open |-> FALSE, actual_sample_rate |-> actual,
          opened |-> <<target_sample_rate>>, raised |-> TRUE]

\* read_chunk() on data of length samples: the length of the array returned
\* and whether it was resampled
ReadChunk(actual, length) ==
    IF actual /= target_sample_rate
    THEN [length |-> (length * target_sample_rate) \div actual,
          resampled |-> TRUE]
    ELSE [length |-> length, resampled |-> FALSE]

\* MicrophoneStream(sample_rate, device_index=index)
MicrophoneStreamInit(index) ==
    /\ device_index' = index
    /\ actual_sample_rate' = target_sample_rate
    /\ is_recording' = FALSE
    /\ stream_open' = FALSE
    /\ mic_start' = None
    /\ read_chunk_ret' = None
    /\ UNCHANGED <<ctlVars, vadVars, kwVars, koVars, callVars, status, error_message,
                   start_ret, is_model_loaded, ac_is_running, capture_alive,
                   tw_is_running, tw_alive, audio_queue, tw_audio, emitted,
                   closed, stopping, stop_ret, tw_orphans>>

\* MicrophoneStream.start() on a stream that is not recording
MicStart(target_ok, reported, native_ok) ==
    /\ ~is_recording
    /\ is_recording' = TRUE
    /\ \E o \in {MicrophoneStreamOpen(device_index, actual_sample_rate,
                                       target_ok, reported, native_ok)} :
          /\ stream_open' = o.stream_open
          /\ actual_sample_rate' = o.actual_sample_rate
          /\ mic_start' = Some([target_ok |-> target_ok, reported |-> reported,
                                native_ok |-> native_ok, opened |-> o.opened,
                                raised |-> o.raised])
    /\ read_chunk_ret' = None
    /\ UNCHANGED <<ctlVars, vadVars, kwVars, koVars, callVars, status, error_message,
                   start_ret, is_model_loaded, ac_is_running, capture_alive,
                   tw_is_running, tw_alive, audio_queue, tw_audio, emitted,
                   closed, stopping, stop_ret, tw_orphans, device_index>>

\* MicrophoneStream.stop() on a stream that is recording
MicStop ==
    /\ is_recording
    /\ is_recording' = FALSE
    /\ stream_open' = FALSE
    /\ UNCHANGED <<ctlVars, vadVars, kwVars, koVars, callVars, status, error_message,
                   start_ret, is_model_loaded, ac_is_running, capture_alive,
                   tw_is_running, tw_alive, audio_queue, tw_audio, emitted,
                   closed, stopping, stop_ret, tw_orphans, micVars>>

\* read_chunk() when the callback of the open stream has queued a buffer of
\* chunk_size samples
MicReadChunk ==
    /\ stream_open
    /\ read_chunk_ret' = Some(ReadChunk(actual_sample_rate, chunk_size))
    /\ UNCHANGED <<ctlVars, vadVars, kwVars, koVars, callVars, status, error_message,
                   start_ret, is_model_loaded, ac_is_running, capture_alive,
                   is_recording, stream_open, tw_is_running, tw_alive,
                   audio_queue, tw_audio, emitted, closed, stopping, stop_ret, tw_orphans,
                   device_index, actual_sample_rate, mic_start>>

(***************************************************************************)
(* DictationController and Database.  The controller sees its backend      *)
(* through BaseBackend: the status; start and stop of the backend are      *)
(* taken here by what they do to the status and by what they return.       *)
(***************************************************************************)
\* The languages a session is started with
Languages == {"en", "es"}

\* Database.get_current_session(): the newest row with status 'running',
\* optional
GetCurrentSession(rows) ==
    LET hits == {i \in 1..Len(rows) : rows[i].status = "running"}
    IN  IF hits = {} THEN None
        ELSE Some(rows[CHOOSE i \in hits : \A j \in hits : j <= i])

\* Database.stop_session(): every row with status 'running' becomes 'stopped'
StopSession(rows) ==
    [i \in 1..Len(rows) |-> [rows[i] EXCEPT !.status = "stopped"]]

\* Database.start_session(language, ...): the running rows are stopped and a
\* new running row is inserted
StartSession(rows, language) ==
    Append(StopSession(rows), [language |-> language, status |-> "running"])

\* BaseBackend.is_running
BackendIsRunning(st) == st = RUNNING

\* DictationController.is_running()
IsRunning(has_backend, st, rows) ==
    IF ~has_backend THEN FALSE
    ELSE IF BackendIsRunning(st) THEN TRUE
    ELSE GetCurrentSession(rows) /= None

\* WhisperBackend.stop() seen from the controller: the status afterwards
\* (stop_ok: no component raised while it was stopped) and the value returned
BackendStopOutcome(st, stop_ok) ==
    IF ~BackendIsRunning(st) THEN [status |-> st, ret |-> TRUE]
    ELSE IF stop_ok THEN [status |-> STOPPED, ret |-> TRUE]
    ELSE [status |-> ERROR, ret |-> FALSE]

\* WhisperBackend.start(language) seen from the controller (start_ok: the
\* model loads, the language is supported and every component starts)
BackendStartOutcome(st, start_ok) ==
    IF st = ERROR THEN [status |-> st, ret |-> FALSE]
    ELSE IF BackendIsRunning(st) THEN [status |-> st, ret |-> TRUE]
    ELSE IF start_ok THEN [status |-> RUNNING, ret |-> TRUE]
    ELSE [status |-> ERROR, ret |-> FALSE]

\* DictationController.stop(): the backend's status and the rows afterwards
ControllerStopOutcome(has_backend, st, rows, stop_ok) ==
    IF ~has_backend THEN [status |-> st, sessions |-> rows]
    ELSE [status |-> BackendStopOutcome(st, stop_ok).status,
          sessions |-> StopSession(rows)]

\* DictationController.get_status(): the dictionary returned, as far as the
\* controller and the session fill it, and the rows afterwards
GetStatus(has_backend, st, rows) ==
    LET running == IsRunning(has_backend, st, rows)
        session == GetCurrentSession(rows)
    IN  [ret |-> [running |-> running,
                  language |-> IF session /= None
                               THEN Some(session[1].language) ELSE None],
         sessions |-> IF session /= None /\ ~running
                      THEN StopSession(rows) ELSE rows]

\* DictationController.get_status()
GetStatusCall ==
    /\ \E r \in {GetStatus(current_backend, status, sessions)} :
           /\ get_status_ret' = Some(r.ret)
           /\ sessions' = r.sessions
    /\ UNCHANGED <<vadVars, kwVars, koVars, callVars, beVars, current_backend>>

\* DictationController.stop()
ControllerStop(stop_ok) ==
    /\ \E r \in {ControllerStopOutcome(current_backend, status, sessions,
                                       stop_ok)} :
           /\ status' = r.status
           /\ error_message' = IF r.status = status THEN error_message
                               ELSE r.status = ERROR
           /\ sessions' = r.sessions
    /\ UNCHANGED <<vadVars, kwVars, koVars, callVars, start_ret,
                   is_model_loaded, ac_is_running, capture_alive,
                   is_recording, stream_open, tw_is_running, tw_alive,
                   audio_queue, tw_audio, emitted, closed, stopping, stop_ret, tw_orphans, micVars,
                   current_backend, get_status_ret>>

\* DictationController.start(language): reset_error_state for a backend in
\* ERROR, stop() when is_running(), then start of the backend and, when it
\* succeeds, start_session
ControllerStart(language, stop_ok, start_ok) ==
    /\ current_backend
    /\ LET reset == IF status = ERROR THEN STOPPED ELSE status
           stopped == IF IsRunning(current_backend, reset, sessions)
                      THEN ControllerStopOutcome(current_backend, reset,
                                                 sessions, stop_ok)
                      ELSE [status |-> reset, sessions |-> sessions]
           started == BackendStartOutcome(stopped.status, start_ok)
       IN  /\ status' = started.status
           /\ error_message' = (started.status = ERROR)
           /\ start_ret' = Some(started.ret)
           /\ sessions' = IF started.ret
                          THEN StartSession(stopped.sessions, language)
                          ELSE stopped.sessions
    /\ UNCHANGED <<vadVars, kwVars, koVars, callVars, is_model_loaded,
                   ac_is_running, capture_alive, is_recording, stream_open,
                   tw_is_running, tw_alive, audio_queue, tw_audio, emitted,
                   closed, stopping, stop_ret, tw_orphans, micVars, current_backend,
                   get_status_ret>>

\* WhisperBackend._on_error called by a worker thread of the running backend
OnErrorCall ==
    /\ BackendIsRunning(status)
    /\ status' = OnError.status
    /\ error_message' = OnError.error_message
    /\ UNCHANGED <<vadVars, kwVars, koVars, callVars, start_ret,
                   is_model_loaded, ac_is_running, capture_alive,
                   is_recording, stream_open, tw_is_running, tw_alive,
                   audio_queue, tw_audio, emitted, closed, stopping, stop_ret, tw_orphans, micVars,
                   ctlVars>>

(***************************************************************************)
(* Initial states and specifications                                       *)
(***************************************************************************)
\* KeywordDetector(keyword='tony', timeout_seconds=..., max_command_words=1,
\* command_registry=CommandRegistry())
KwDefaults ==
    /\ keyword = <<"tony">>
    /\ timeout_seconds = 1
    /\ max_command_words = 1
    /\ has_registry = TRUE
    /\ current_mode = NORMAL
    /\ keyword_detected_time = None
    /\ commands = BuiltinCommands

\* KeyboardOutput(): not started
KoDefaults ==
    /\ xdotool_available = TRUE
    /\ ko_is_running = FALSE
    /\ workers = 0
    /\ output_queue = <<>>
    /\ previous_text = <<>>
    /\ xdo = <<>>
    /\ ko_taken = None

\* WhisperBackend(): no transcription result yet
CallDefaults ==
    /\ voice_commands_enabled = FALSE
    /\ is_first_chunk = TRUE
    /\ now = 0
    /\ pc = "idle"
    /\ text = <<>>
    /\ call = NoCall
    /\ result = None
    /\ typed = <<>>
    /\ executed = <<>>

\* A MicrophoneStream for the default device, not started
MicDefaults ==
    /\ device_index = None
    /\ actual_sample_rate = target_sample_rate
    /\ mic_start = None
    /\ read_chunk_ret = None

\* The backend used without a DictationController, no session recorded
CtlDefaults ==
    /\ current_backend = TRUE
    /\ sessions = <<>>
    /\ get_status_ret = None

\* WhisperBackend(): constructed without error, not started
BackendDefaults ==
    /\ status = STOPPED
    /\ error_message = FALSE
    /\ start_ret = None
    /\ is_model_loaded = FALSE
    /\ ac_is_running = FALSE
    /\ capture_alive = FALSE
    /\ is_recording = FALSE
    /\ stream_open = FALSE
    /\ tw_is_running = FALSE
    /\ tw_alive = FALSE
    /\ audio_queue = <<>>
    /\ tw_audio = 0
    /\ emitted = 0
    /\ closed = <<>>
    /\ stopping = FALSE
    /\ stop_ret = None
    /\ tw_orphans = 0

\* The segmenter fed with frames.
InitVad ==
    /\ VadInit /\ KwDefaults /\ KoDefaults /\ CallDefaults /\ BackendDefaults
    /\ MicDefaults
    /\ CtlDefaults

NextVad ==
    \/ \E frame \in Frames : CaptureLoop(frame)
    \/ VadReset

SpecVad == InitVad /\ [][NextVad]_vars

\* AudioCapture(silence_duration=1.0, min_audio_length=0.3) with either
\* detector, fed with the run
InitRun ==
    /\ KwDefaults /\ KoDefaults /\ CallDefaults /\ BackendDefaults /\ MicDefaults
    /\ CtlDefaults
    /\ silence_duration = 1000
    /\ min_audio_length = 300
    /\ use_webrtcvad \in BOOLEAN
    /\ is_speaking = FALSE
    /\ silence_counter = 0
    /\ audio_buffer = <<>>
    /\ frames = <<>>
    /\ last_ret = [speech |-> FALSE, chunk |-> None]
    /\ chunks_sent = <<>>

NextRun == CaptureRun

SpecRun == InitRun /\ [][NextRun]_vars

\* The segmenter as constructed and never fed.
VadDefaults ==
    /\ silence_duration = 30
    /\ min_audio_length = 0
    /\ use_webrtcvad = FALSE
    /\ is_speaking = FALSE
    /\ silence_counter = 0
    /\ audio_buffer = <<>>
    /\ frames = <<>>
    /\ last_ret = [speech |-> FALSE, chunk |-> None]
    /\ chunks_sent = <<>>

\* The detector called with texts while time passes.
InitKw ==
    /\ VadDefaults /\ KoDefaults /\ CallDefaults /\ BackendDefaults
    /\ MicDefaults
    /\ CtlDefaults
    /\ keyword = <<"tony">>
    /\ timeout_seconds = 1
    /\ max_command_words \in {1, 2}
    /\ has_registry \in BOOLEAN
    /\ commands \in Registries
    /\ has_registry = FALSE => commands = BuiltinCommands
    /\ current_mode = NORMAL
    /\ keyword_detected_time = None

NextKw ==
    \/ pc = "idle" /\ \E t \in KwTexts : Submit(t, "process_text")
    \/ ProcessTextCall
    \/ Return
    \/ Tick
    \/ Reset
    \/ \E k \in NewKeywords : UpdateKeyword(k)
    \/ \E t \in {0, 11} : UpdateTimeout(t)

SpecKw == InitKw /\ [][NextKw]_vars

\* A running session of the backend: transcription results handled one after
\* the other while their texts wait in output_queue.  The handler reads
\* nothing that the output worker writes; the worker's turns are in SpecKo.
InitUtt ==
    /\ VadDefaults
    /\ status = RUNNING
    /\ error_message = FALSE
    /\ start_ret = Some(TRUE)
    /\ is_model_loaded = TRUE
    /\ ac_is_running = TRUE
    /\ capture_alive = TRUE
    /\ is_recording = TRUE
    /\ stream_open = TRUE
    /\ tw_is_running = TRUE
    /\ tw_alive = TRUE
    /\ audio_queue = <<>>
    /\ tw_audio = 0
    /\ emitted = 0
    /\ closed = <<>>
    /\ stopping = FALSE
    /\ stop_ret = None
    /\ tw_orphans = 0
    /\ MicDefaults
    /\ CtlDefaults
    /\ keyword = <<"tony">>
    /\ timeout_seconds = 1
    /\ max_command_words = 1
    /\ has_registry = TRUE
    /\ commands = BuiltinCommands
    /\ current_mode = NORMAL
    /\ keyword_detected_time = None
    /\ xdotool_available = TRUE
    /\ ko_is_running = TRUE
    /\ workers = 1
    /\ output_queue = <<>>
    /\ previous_text = <<>>
    /\ xdo = <<>>
    /\ ko_taken = None
    /\ voice_commands_enabled \in BOOLEAN
    /\ is_first_chunk = TRUE
    /\ now = 0
    /\ pc = "idle"
    /\ text = <<>>
    /\ call = NoCall
    /\ result = None
    /\ typed = <<>>
    /\ executed = <<>>

NextUtt ==
    \/ /\ pc = "idle"
       /\ Len(output_queue) < MaxWaiting
       /\ \E t \in UttTexts : Submit(t, "on_transcription_result")
    \/ OnTranscriptionResult
    \/ Return

SpecUtt == InitUtt /\ [][NextUtt]_vars

\* A running session in which commands are enabled and disabled between the
\* utterances, and execute_command is called for the commands of the registry
CommandTexts ==
    { <<"TONY">>, <<"enter">>, <<"TONY", " ", "enter">>,
      <<"hola", " ", "TONY", " ", "enter", " ", "hola">>, <<"hola">> }


NextCmd ==
    \/ /\ pc = "idle"
       /\ Len(output_queue) < MaxWaiting
       /\ \E t \in CommandTexts : Submit(t, "on_transcription_result")
    \/ OnTranscriptionResult
    \/ Return
    \/ \E name \in {<<"ENTER">>, <<"select", "all">>},
          enabled \in BOOLEAN :
           EnableCommandCall(name, enabled)
    \/ \E i \in 1..Len(commands) : ExecuteCommandCall(commands[i])

SpecCmd == InitUtt /\ [][NextCmd]_vars

\* The texts that transcribe returns in a session
SessionTexts ==
    { <<"hola">>, <<"tony", " ", "enter">>,
      <<"hola", " ", "tony", " ", "enter", " ", "hola">> }

\* The keys given to simulate_key_press
Keys == {"Return"}

\* WhisperBackend(): the status is ERROR when the constructor of
\* KeyboardOutput reported that xdotool is missing (on_error), or when the
\* constructor of a component raised.
InitBackend ==
    /\ VadDefaults /\ KwDefaults
    /\ voice_commands_enabled \in BOOLEAN
    /\ is_first_chunk = TRUE
    /\ now = 0
    /\ pc = "idle"
    /\ text = <<>>
    /\ call = NoCall
    /\ result = None
    /\ typed = <<>>
    /\ executed = <<>>
    /\ xdotool_available \in BOOLEAN
    /\ ko_is_running = FALSE
    /\ workers = 0
    /\ output_queue = <<>>
    /\ previous_text = <<>>
    /\ xdo = <<>>
    /\ ko_taken = None
    /\ status \in {STOPPED, ERROR}
    /\ ~xdotool_available => status = ERROR
    /\ error_message = (status = ERROR)
    /\ start_ret = None
    /\ is_model_loaded = FALSE
    /\ ac_is_running = FALSE
    /\ capture_alive = FALSE
    /\ is_recording = FALSE
    /\ stream_open = FALSE
    /\ tw_is_running = FALSE
    /\ tw_alive = FALSE
    /\ audio_queue = <<>>
    /\ tw_audio = 0
    /\ emitted = 0
    /\ closed = <<>>
    /\ stopping = FALSE
    /\ stop_ret = None
    /\ tw_orphans = 0
    /\ MicDefaults
    /\ CtlDefaults

NextBackend ==
    \/ \E load_ok, language_ok, can_open \in BOOLEAN :
           BackendStart(load_ok, language_ok, can_open)
    \/ BackendStop
    \/ BackendStopReturn
    \/ \E cuda \in BOOLEAN : ResetErrorState(cuda)
    \/ OnAudioChunk
    \/ CaptureLoopExit
    \/ WorkerLoop
    \/ \E t \in SessionTexts : Transcribe(t)
    \/ TranscribeFails
    \/ OnTranscriptionResult
    \/ Return
    \/ OutputLoop
    \/ \E t \in {<<"x">>} : TypeImmediate(t)
    \/ \E key \in Keys : SimulateKeyPress(key)
    \/ \E i \in 1..Len(commands) : ExecuteCommandCall(commands[i])

SpecBackend == InitBackend /\ [][NextBackend]_vars

\* Names given to register_command and unregister_command, and texts given
\* to find_matching_command
RegistryNames ==
    {<<"ENTER">>, <<"ret">>, <<"ret", "urn", "key">>, <<"select">>}
SpokenTexts ==
    { <<>>, <<"enter">>, <<" ", "ENTER", " ">>, <<"ret">>, <<"ret", "urn">>,
      <<"ret", "urn", "key">>, <<"select">>, <<"select", "all", "x">>, <<"x">> }

\* CommandRegistry(): the built-in commands
InitReg ==
    /\ VadDefaults /\ KwDefaults /\ KoDefaults /\ CallDefaults /\ BackendDefaults
    /\ MicDefaults
    /\ CtlDefaults

NextReg ==
    \/ pc = "idle" /\ \E t \in SpokenTexts : Submit(t, "find_matching_command")
    \/ FindMatchingCommandCall
    \/ Return
    \/ \E name \in RegistryNames : RegisterCommandCall(name)
    \/ \E name \in RegistryNames : UnregisterCommandCall(name)

SpecReg == InitReg /\ [][NextReg]_vars

\* A MicrophoneStream of any device index, started, read and stopped
InitMic ==
    /\ VadDefaults /\ KwDefaults /\ KoDefaults /\ CallDefaults /\ BackendDefaults
    /\ CtlDefaults
    /\ device_index \in DeviceIndexes
    /\ actual_sample_rate = target_sample_rate
    /\ mic_start = None
    /\ read_chunk_ret = None

NextMic ==
    \/ \E index \in DeviceIndexes : MicrophoneStreamInit(index)
    \* reported: what the device reports as defaultSampleRate, Hz; None when
    \* get_device_info_by_index raises
    \/ \E target_ok, native_ok \in BOOLEAN,
          reported \in {None, Some(16000), Some(44100), Some(48000)} :
           MicStart(target_ok, reported, native_ok)
    \/ MicStop
    \/ MicReadChunk

SpecMic == InitMic /\ [][NextMic]_vars

\* DictationController(config, database) on a database in which the process
\* before may have left a running session; with no backend when none could
\* be initialized
InitCtl ==
    /\ VadDefaults /\ KwDefaults /\ KoDefaults /\ CallDefaults /\ BackendDefaults
    /\ MicDefaults
    /\ current_backend \in BOOLEAN
    /\ sessions \in {<<>>} \cup {<<[language |-> l, status |-> "running"]>> :
                                     l \in Languages}
    /\ get_status_ret = None

NextCtl ==
    \/ /\ Len(sessions) < MaxSessions
       /\ \E language \in Languages, stop_ok, start_ok \in BOOLEAN :
              ControllerStart(language, stop_ok, start_ok)
    \/ \E stop_ok \in BOOLEAN : ControllerStop(stop_ok)
    \/ GetStatusCall
    \/ OnErrorCall

SpecCtl == InitCtl /\ [][NextCtl]_vars

\* KeyboardOutput started, given texts, stopped and started again.
InitKo ==
    /\ VadDefaults /\ KwDefaults /\ CallDefaults /\ BackendDefaults
    /\ MicDefaults
    /\ CtlDefaults
    /\ xdotool_available \in BOOLEAN
    /\ ko_is_running = FALSE
    /\ workers = 0
    /\ output_queue = <<>>
    /\ previous_text = <<>>
    /\ xdo = <<>>
    /\ ko_taken = None

NextKo ==
    \/ KoStart
    \/ KoStop
    \/ /\ Len(output_queue) < MaxQueue
       /\ \E t \in KoTexts, c \in BOOLEAN : TypeText(t, c)
    \/ OutputLoop
    \/ ResetCorrectionState

SpecKo == InitKo /\ [][NextKo]_vars


(***************************************************************************)
(* Segmentation claims (C1 - C3), stated over the history of the stream.   *)
(***************************************************************************)
\* The number of consecutive "silence" entries of h that end at position i.
RECURSIVE TrailingSilence(_, _)
TrailingSilence(h, i) ==
    IF i = 0 \/ h[i] /= "silence" THEN 0 ELSE 1 + TrailingSilence(h, i - 1)

\* Position i is a silence frame whose run of silence follows a speech frame.
SilenceAfterSpeech(h, i) ==
    /\ h[i] = "silence"
    /\ i - TrailingSilence(h, i) >= 1
    /\ h[i - TrailingSilence(h, i)] = "speech"

\* Position i is the n-th consecutive silence frame after a speech run.
NthSilenceAfterSpeech(h, i, n) ==
    SilenceAfterSpeech(h, i) /\ TrailingSilence(h, i) = n

\* The frame on which a speech run is finalized.
FinalizingFrame(h, i) == NthSilenceAfterSpeech(h, i, Max(1, silence_frames))

\* The first frame buffered for the chunk finalized at position i: the one after
\* the latest earlier finalization or reset.
ChunkStart(h, i) ==
    LET cuts == {j \in 1..(i - 1) : h[j] = "reset" \/ FinalizingFrame(h, j)}
    IN  IF cuts = {} THEN 1 ELSE 1 + (CHOOSE j \in cuts : \A k \in cuts : k <= j)

\* The finalizations of h whose chunk reaches min_audio_length.
SentPoints(h) ==
    {i \in 1..Len(h) : /\ FinalizingFrame(h, i)
                       /\ (i - ChunkStart(h, i) + 1) * chunk_size >= min_samples}

\* C1 (as amended): process_frame returns a chunk exactly on the
\* max(1, silence_frames)-th consecutive silence frame that follows a speech run
\* and None on every other frame, and on_audio_chunk has been invoked exactly
\* once per finalized run whose chunk has at least min_samples samples.
C1_OneChunkPerRun ==
    /\ (Len(frames) > 0 /\ frames[Len(frames)] /= "reset")
          => ((last_ret.chunk /= None) <=> FinalizingFrame(frames, Len(frames)))
    /\ Len(chunks_sent) = Cardinality(SentPoints(frames))
    /\ \A k \in 1..Len(chunks_sent) :
          \E i \in SentPoints(frames) :
              /\ chunks_sent[k][Len(chunks_sent[k])] = i
              /\ Cardinality({j \in SentPoints(frames) : j <= i}) = k

\* C1 witness: a run was finalized after two or more silence frames, its chunk
\* was sent, and the silence went on with nothing more returned.
C1_Witness ==
    /\ silence_frames >= 2
    /\ Len(chunks_sent) = 1
    /\ Len(frames) > 0 /\ frames[Len(frames)] = "silence"
    /\ TrailingSilence(frames, Len(frames)) > silence_frames
    /\ last_ret.chunk = None

\* C1 as stated: the chunk is returned on the silence_frames-th consecutive
\* silence frame exactly.
C1_Original ==
    (Len(frames) > 0 /\ frames[Len(frames)] /= "reset")
        => ((last_ret.chunk /= None)
                <=> NthSilenceAfterSpeech(frames, Len(frames), silence_frames))

\* C2: every emitted utterance starts at the first speech frame of its run and
\* holds no frame classified as silence while is_speaking was false.
C2_ChunkStartsAtSpeech ==
    \A k \in 1..Len(chunks_sent) :
        LET c == chunks_sent[k]
        IN  /\ frames[c[1]] = "speech"
            /\ \A n \in 1..Len(c) :
                  frames[c[n]] = "silence" => SilenceAfterSpeech(frames, c[n])

\* The frames of a chunk from its first to its last speech frame.
SpeechRunFrames(c) ==
    LET sp == {n \in 1..Len(c) : frames[c[n]] = "speech"}
    IN  IF sp = {} THEN 0
        ELSE (CHOOSE n \in sp : \A m \in sp : m <= n)
             - (CHOOSE n \in sp : \A m \in sp : n <= m) + 1

\* C3: a speech run shorter than min_audio_length emits nothing.
C3_ShortRunEmitsNothing ==
    \A k \in 1..Len(chunks_sent) :
        SpeechRunFrames(chunks_sent[k]) * frame_duration_ms >= min_audio_length

(***************************************************************************)
(* Claims about KeywordDetector.process_text                               *)
(***************************************************************************)
\* kw occurs in t as a whole word in any letter case: its symbols are there
\* and the symbols next to them, if any, are not word characters.
OccursAsWordAt(kw, t, p) ==
    /\ p + Len(kw) - 1 <= Len(t)
    /\ \A k \in 1..Len(kw) : LowerSym(t[p + k - 1]) = LowerSym(kw[k])
    /\ p = 1 \/ ~IsWordChar(t[p - 1])
    /\ p + Len(kw) - 1 = Len(t) \/ ~IsWordChar(t[p + Len(kw)])

HasWholeWord(kw, t) == \E p \in 1..Len(t) : OccursAsWordAt(kw, t, p)

\* The symbols of t after / before the first whole-word occurrence of kw
FirstOccurrence(kw, t) ==
    CHOOSE p \in 1..Len(t) :
        /\ OccursAsWordAt(kw, t, p)
        /\ \A q \in 1..(p - 1) : ~OccursAsWordAt(kw, t, q)

AfterWakeWord(t) == SubSeq(t, FirstOccurrence(keyword, t) + Len(keyword), Len(t))
BeforeWakeWord(t) == SubSeq(t, 1, FirstOccurrence(keyword, t) - 1)

\* text.upper() on the symbols that have an upper-case form
UpperSym(c) == CASE c = "tony" -> "TONY" [] c = "enter" -> "ENTER" [] OTHER -> c
UpperText(t) == [i \in 1..Len(t) |-> UpperSym(t[i])]

\* A process_text call that began in mode m has returned.
ProcessTextDone(m) ==
    pc = "done" /\ call.op = "process_text" /\ call.mode = m

\* The time between the activation and the call
Elapsed == call.time - call.detected_time[1]

\* The tokens of the text after the wake word, leading fillers removed
TokensAfterWakeWord(t) ==
    DropFillers(Split(StripPunctuationAndWhitespace(
                          AfterWakeWord(Strip(LowerText(t))))))

\* The numbers k of leading tokens whose join is a name in the registry
MatchLengths(tokens) ==
    {k \in 1..Min(max_command_words, Len(tokens)) :
        \E i \in 1..Len(commands) : commands[i].name = Join(SubSeq(tokens, 1, k))}

\* The command and the remaining text for the largest such k, if there is one
LongestMatch(tokens) ==
    IF MatchLengths(tokens) = {} THEN None
    ELSE LET k == CHOOSE n \in MatchLengths(tokens) :
                      \A m \in MatchLengths(tokens) : m <= n
         IN  Some([command |-> Join(SubSeq(tokens, 1, k)),
                   remaining_text |->
                       IF k = Len(tokens) THEN None
                       ELSE Some(Join(SubSeq(tokens, k + 1, Len(tokens))))])

\* C4: with a registry, for a text with the wake word handled in NORMAL mode,
\* the command returned is the join of the first k tokens after the wake word
\* (leading fillers removed) for the largest k <= min(max_command_words,
\* number of tokens) whose join is a registered name, the remaining text is
\* the tokens after those k (None if there are none), and no command is
\* returned if no such k exists.
C4_LongestMatch ==
    (ProcessTextDone(NORMAL) /\ has_registry /\ HasWholeWord(keyword, text))
    => LET m == LongestMatch(TokensAfterWakeWord(text))
       IN  IF m = None
           THEN result[1].command_candidate = None
           ELSE /\ result[1].command_candidate = Some(m[1].command)
                /\ result[1].remaining_text = m[1].remaining_text

\* A two-word command was preferred to its registered first word.
C4_Witness ==
    /\ ProcessTextDone(NORMAL) /\ has_registry
    /\ text = <<"tony", " ", "select", " ", "all">>
    /\ GetCommand(<<"select">>) /= None
    /\ result[1].command_candidate = Some(<<"select", " ", "all">>)
    /\ result[1].remaining_text = None

\* The command that the tokens of a text resolve to: the longest match with a
\* registry, the first word without one
Resolved(t) ==
    IF has_registry THEN LongestMatch(DropFillers(Split(t)))
    ELSE IF Split(t) = <<>> THEN None
    ELSE Some([command |-> Split(t)[1],
               remaining_text |-> IF Len(Split(t)) = 1 THEN None
                                  ELSE Some(Join(Tail(Split(t))))])

\* The command that process_text is to resolve in the call that has returned:
\* after the wake word in NORMAL mode, in the whole text in COMMAND_ACTIVE mode
\* before the timeout
ResolvedByCall ==
    IF call.mode = NORMAL
    THEN IF HasWholeWord(keyword, text)
         THEN Resolved(StripPunctuationAndWhitespace(
                           AfterWakeWord(Strip(LowerText(text)))))
         ELSE None
    ELSE IF Elapsed > timeout_seconds THEN None
    ELSE Resolved(Strip(LowerText(text)))

\* C5: whenever process_text resolves a command, in NORMAL mode after the wake
\* word or in COMMAND_ACTIVE mode in a later text, the result has
\* detected_keyword true and the matched name as command_candidate, and the
\* detector is in NORMAL mode with no activation timestamp.
C5_CommandResetsToNormal ==
    (pc = "done" /\ call.op = "process_text" /\ ResolvedByCall /= None)
    => /\ result = Some(DetectionResult(TRUE, Some(ResolvedByCall[1].command),
                                        ResolvedByCall[1].remaining_text, NORMAL))
       /\ current_mode = NORMAL
       /\ keyword_detected_time = None

\* A command was resolved in COMMAND_ACTIVE mode in a text without the wake word.
C5_Witness ==
    /\ ProcessTextDone(COMMAND_ACTIVE)
    /\ ~HasWholeWord(keyword, text)
    /\ result[1].detected_keyword
    /\ result[1].command_candidate = Some(<<"enter">>)
    /\ current_mode = NORMAL

\* No command is to be resolved and the timeout has not elapsed.
NoCommandNoTimeout ==
    /\ pc = "done" /\ call.op = "process_text"
    /\ ResolvedByCall = None
    /\ call.mode = NORMAL => HasWholeWord(keyword, text)
    /\ call.mode = COMMAND_ACTIVE => Elapsed <= timeout_seconds

\* C6: when no command is found and the timeout has not elapsed, the text with
\* the wake word handled in NORMAL mode gives detected_keyword true without a
\* command and puts the detector in COMMAND_ACTIVE mode with the time of the
\* call as timestamp; a later text handled in COMMAND_ACTIVE mode gives
\* detected_keyword false without a command and leaves the mode and the
\* timestamp as they were.
C6_NoCommandStaysActive ==
    NoCommandNoTimeout
    => /\ result = Some(DetectionResult(call.mode = NORMAL, None, None,
                                        COMMAND_ACTIVE))
       /\ current_mode = COMMAND_ACTIVE
       /\ keyword_detected_time =
              IF call.mode = NORMAL THEN Some(call.time) ELSE call.detected_time

\* A text without a command was handled in COMMAND_ACTIVE mode before the timeout.
C6_Witness ==
    /\ NoCommandNoTimeout
    /\ call.mode = COMMAND_ACTIVE
    /\ ~IsBlank(text)
    /\ result[1].detected_keyword = FALSE
    /\ current_mode = COMMAND_ACTIVE

\* C6 as stated: detected_keyword is true in both cases.
C6_Original ==
    NoCommandNoTimeout
    => /\ result = Some(DetectionResult(TRUE, None, None, COMMAND_ACTIVE))
       /\ current_mode = COMMAND_ACTIVE

\* What a process_text call in COMMAND_ACTIVE mode has done, by the time since
\* the activation
TimeoutIsStrict ==
    ProcessTextDone(COMMAND_ACTIVE)
    => IF Elapsed > timeout_seconds
       THEN /\ current_mode = NORMAL
            /\ keyword_detected_time = None
            /\ result = Some(DetectionResult(FALSE, None, None, NORMAL))
       ELSE \/ result[1].detected_keyword /\ result[1].command_candidate /= None
            \/ /\ current_mode = COMMAND_ACTIVE
               /\ keyword_detected_time = call.detected_time

\* The detector leaves COMMAND_ACTIVE mode in this step.
LeavesCommandMode == current_mode = COMMAND_ACTIVE /\ current_mode' /= COMMAND_ACTIVE

\* C7: a process_text call in COMMAND_ACTIVE mode more than timeout_seconds
\* after the activation resets the detector to NORMAL and returns no
\* detection whatever the text; a call at most timeout_seconds after it does
\* no timeout reset; and the detector leaves COMMAND_ACTIVE mode only in a
\* process_text, reset or update_keyword call.
C7_LazyStrictTimeout ==
    /\ []TimeoutIsStrict
    /\ [][LeavesCommandMode
          => \/ ProcessTextCall
             \/ Reset
             \/ \E k \in NewKeywords : UpdateKeyword(k)]_vars

\* The timeout reset a call whose text has the wake word and a command.
C7_Witness ==
    /\ ProcessTextDone(COMMAND_ACTIVE)
    /\ Elapsed > timeout_seconds
    /\ text = <<"tony", " ", "enter">>
    /\ result[1].detected_keyword = FALSE
    /\ current_mode = NORMAL

\* In NORMAL mode the wake word is detected exactly when it is a whole word
\* of the text, and the detector stays in NORMAL mode when it is not.
DetectsWholeWords ==
    ProcessTextDone(NORMAL)
    => /\ result[1].detected_keyword = HasWholeWord(keyword, text)
       /\ ~HasWholeWord(keyword, text) => current_mode = NORMAL

\* C8: in NORMAL mode the wake word is detected if and only if it occurs in
\* the text as a whole word, at any position and in any letter case; a word
\* that starts with the wake word gives detected_keyword false and leaves the
\* detector in NORMAL mode; and the result of process_text is the same for
\* the text in lower case and in upper case.
C8_WholeWordAnyCase ==
    /\ []DetectsWholeWords
    /\ [][ProcessTextCall
          => /\ result' = Some(ProcessText(LowerText(text)).result)
             /\ result' = Some(ProcessText(UpperText(text)).result)]_vars

\* The wake word in upper case was detected at the end of a text.
C8_Witness ==
    /\ ProcessTextDone(NORMAL)
    /\ text = <<"x", " ", "TONY">>
    /\ result[1].detected_keyword

(***************************************************************************)
(* Claims about WhisperBackend._on_transcription_result                    *)
(***************************************************************************)
\* The handler runs in this step on a text that has the wake word as a whole
\* word and text before it, with voice commands enabled and the detector in
\* NORMAL mode.
HandlesTextBeforeWakeWord ==
    /\ OnTranscriptionResult
    /\ voice_commands_enabled
    /\ current_mode = NORMAL
    /\ HasWholeWord(keyword, text)
    /\ ~IsBlank(BeforeWakeWord(text))

\* The item queued for a piece of dictation: processed by the TextProcessor,
\* after a space unless it is the first of the session, without correction
Dictation(t, first) ==
    [text |-> (IF first THEN <<>> ELSE <<" ">>) \o TextProcessorProcessText(Strip(t)),
     enable_correction |-> FALSE]

\* The command after the wake word of the text, if there is one
CommandAfterWakeWord ==
    Resolved(StripPunctuationAndWhitespace(AfterWakeWord(Strip(LowerText(text)))))

\* The items queued for the words that follow the command
DictationAfter(command) ==
    IF command.remaining_text = None THEN <<>>
    ELSE <<Dictation(command.remaining_text[1], FALSE)>>

\* The queue with the items added at its end
QueuedAfter(q, items) == q \o [i \in 1..Len(items) |-> Some(items[i])]

WorkerTypes ==
    /\ OutputLoop
    /\ ko_is_running
    /\ Head(output_queue) /= None

\* The length of the longest common prefix of a and b
CommonPrefixLength(a, b) ==
    CHOOSE i \in 0..Min(Len(a), Len(b)) :
        /\ SubSeq(a, 1, i) = SubSeq(b, 1, i)
        /\ i = Min(Len(a), Len(b)) \/ a[i + 1] /= b[i + 1]

\* count BackSpace operations, none if count is 0
BackSpaces(count) ==
    IF count = 0 THEN <<>>
    ELSE << [op |-> "key", key |-> "BackSpace", count |-> count, text |-> <<>>] >>

\* t typed, nothing if t is empty
Typed(t) ==
    IF t = <<>> THEN <<>>
    ELSE << [op |-> "type", key |-> "", count |-> 0, text |-> t] >>

\* C10: with correction enabled and a non-blank new text, i being the length
\* of the longest common prefix of previous_text and the new text, the worker
\* sends len(previous_text) - i BackSpace operations, then types new_text[i:],
\* and sets previous_text to the new text.
C10_DeleteThenTypeSuffix ==
    [][(WorkerTypes /\ Head(output_queue)[1].enable_correction
                    /\ ~IsBlank(Head(output_queue)[1].text))
       => LET new_text == Head(output_queue)[1].text
              i == CommonPrefixLength(previous_text, new_text)
          IN  /\ xdo' = BackSpaces(Len(previous_text) - i)
                        \o Typed(SubSeq(new_text, i + 1, Len(new_text)))
              /\ previous_text' = new_text]_vars

\* C11: a blank (empty or whitespace-only) new text taken with correction
\* enabled while previous_text is not empty follows the rule of any other
\* text: i being the length of the common prefix (0 for the empty text), the
\* worker sends len(previous_text) - i BackSpace operations and sets
\* previous_text to the new text.
C11_BlankTextFollowsRule ==
    [][(WorkerTypes /\ Head(output_queue)[1].enable_correction
                    /\ IsBlank(Head(output_queue)[1].text)
                    /\ previous_text /= <<>>)
       => LET new_text == Head(output_queue)[1].text
              i == CommonPrefixLength(previous_text, new_text)
          IN  /\ \E typing \in {<<>>, Typed(SubSeq(new_text, i + 1, Len(new_text)))} :
                     xdo' = BackSpaces(Len(previous_text) - i) \o typing
              /\ previous_text' = new_text]_vars

\* The worker has taken a text with correction disabled.
TakenWithoutCorrection ==
    /\ ko_taken /= None
    /\ ~ko_taken[1].enable_correction

Waiting == SelectSeq(audio_queue, LAMBDA a : a /= Sentinel)

\* The utterances wait in the order the segmenter emitted them, each once,
\* behind the one the worker took last.
AudioInOrder ==
    /\ \A i, j \in 1..Len(Waiting) : i < j => Waiting[i] < Waiting[j]
    /\ \A i \in 1..Len(Waiting) : tw_audio < Waiting[i] /\ Waiting[i] <= emitted

\* The worker takes the oldest utterance waiting, after the ones it took before.
TakesOldestUtterance ==
    (tw_audio' /= tw_audio /\ tw_audio' /= 0)
    => /\ tw_audio' = Head(audio_queue)
       /\ audio_queue' = Tail(audio_queue)
       /\ tw_audio' > tw_audio

\* A result is handled once for each utterance taken, before the next is taken.
HandledOncePerUtterance ==
    /\ pc' = "transcribing" => (pc = "idle" /\ tw_audio' /= tw_audio) \/ pc = "transcribing"
    /\ pc' = "pending" => pc \in {"transcribing", "pending"}
    /\ pc' = "done" => pc \in {"pending", "done"}
    /\ (pc = "pending" /\ pc' /= "pending") => (OnTranscriptionResult /\ tw_audio' = tw_audio)

\* q is the beginning of r.
IsPrefix(q, r) == Len(q) <= Len(r) /\ SubSeq(r, 1, Len(q)) = q

\* output_queue changes by items added at its end or by its oldest item
\* taken, and a text taken is the one the worker types.
TypesOldestText ==
    output_queue' /= output_queue
    => \/ IsPrefix(output_queue, output_queue')
       \/ /\ output_queue /= <<>>
          /\ output_queue' = Tail(output_queue)
          /\ (Head(output_queue) /= None /\ ko_is_running)
             => /\ ko_taken' /= None
                /\ ko_taken'[1].text = Head(output_queue)[1].text
                /\ xdo' = TypeTextWithCorrection(
                               Head(output_queue)[1].text,
                               Head(output_queue)[1].enable_correction).ops

ExecutesCommand == OnTranscriptionResult /\ executed' /= <<>>

\* A text queued by an earlier handler run is still waiting in output_queue.
TextWaiting == \E i \in 1..Len(output_queue) : output_queue[i] /= None

CaptureRunning == capture_alive /\ ac_is_running /\ emitted < MaxUtt

\* C15: the capture thread never blocks on recognition or output: while it
\* runs, handing an utterance to the transcription worker can be done at
\* once, however many utterances are queued and wherever the worker is, and
\* doing it changes nothing but the queue.
C15_CaptureNeverBlocks ==
    /\ [](CaptureRunning => ENABLED OnAudioChunk)
    /\ [][OnAudioChunk => /\ pc' = pc
                          /\ tw_audio' = tw_audio
                          /\ output_queue' = output_queue
                          /\ tw_is_running => audio_queue' =
                                 Append(audio_queue, emitted')]_vars

\* Utterances 2 and 3 were queued behind utterance 1, whose transcription
\* is in progress.
C15_Witness ==
    /\ capture_alive /\ ac_is_running
    /\ pc = "transcribing"
    /\ tw_audio = 1
    /\ audio_queue = <<2, 3>>

\* The thread of _worker_loop / a thread of _output_loop ends in this step.
WorkerEnds == tw_alive /\ ~tw_alive'
OutputWorkerEnds == workers' < workers

\* C16: on stop every stage drains before it exits: when the transcription
\* worker ends no utterance is left in audio_queue, and when the output
\* worker ends no text is left in output_queue.
C16_DrainBeforeExit ==
    [][/\ WorkerEnds => Waiting = <<>>
       /\ OutputWorkerEnds => ~TextWaiting]_vars

\* Component a was stopped before component b in the last stop().
StoppedBefore(a, b) ==
    \E i, j \in 1..Len(closed) : i < j /\ closed[i] = a /\ closed[j] = b

\* C17: during WhisperBackend.stop the microphone stream is closed last,
\* after the transcription worker and the keyboard output worker have been
\* sent their sentinel and stopped.
C17_MicrophoneClosedLast ==
    closed /= <<>>
    => /\ StoppedBefore("transcription_worker", "microphone")
       /\ StoppedBefore("keyboard_output", "microphone")

\* C18: a failed transcription of one utterance is recoverable: the backend
\* stays in RUNNING status, it does not enter ERROR.
C18_FailedTranscriptionRecoverable ==
    [][(TranscribeFails /\ status = RUNNING) => status' = RUNNING]_vars

\* start() is called in this step on a backend that is not running, and the
\* microphone cannot be opened.
StartsWithoutMicrophone ==
    /\ status /= RUNNING
    /\ \E load_ok, language_ok \in BOOLEAN :
           BackendStart(load_ok, language_ok, FALSE)

\* C19: if the microphone cannot be opened at any rate, start returns False
\* with status ERROR and an error message, no capture thread is started and
\* no stream is open; and utterances are segmented by a live capture thread
\* on an open stream only.
C19_NoMicrophoneNoSegmentation ==
    /\ [][StartsWithoutMicrophone
          => /\ start_ret' = Some(FALSE)
             /\ status' = ERROR
             /\ error_message'
             /\ ~capture_alive'
             /\ ~stream_open']_vars
    /\ [][OnAudioChunk => capture_alive /\ stream_open]_vars

\* MicrophoneStream.start raised in AudioCapture.start: is_running and
\* is_recording are set, no stream is open and no capture thread runs.
C19_Witness ==
    /\ status = ERROR /\ error_message
    /\ start_ret = Some(FALSE)
    /\ ac_is_running /\ is_recording /\ ~stream_open
    /\ ~capture_alive
    /\ emitted = 0

\* Nothing has been injected and nothing runs.
NothingInjected ==
    /\ xdo = <<>> /\ ko_taken = None /\ executed = <<>>
    /\ workers = 0 /\ ~ko_is_running /\ output_queue = <<>>
    /\ ~tw_alive /\ ~tw_is_running
    /\ ~capture_alive /\ ~ac_is_running

\* What the calls that inject keys do in this state
CallsInjectNothing ==
    /\ ~ENABLED KoStart
    /\ \A t \in KoTexts, c \in BOOLEAN :
           QueueAfterTypeText(output_queue, t, c) = output_queue
    /\ \A t \in KoTexts : TypeImmediateOps(t) = <<>>
    /\ \A key \in Keys : SimulateKeyPressOps(key) = <<>>
    /\ \A i \in 1..Len(commands) :
           ~ExecuteCommand(commands[i]) /\ ExecuteCommandOps(commands[i]) = <<>>

\* C20: when the key-injection tool is unavailable nothing is ever injected:
\* KeyboardOutput.start starts no worker, type_text queues nothing,
\* type_immediate and simulate_key_press issue no operation, execute_command
\* returns False and presses no key, and WhisperBackend.start returns False
\* with status ERROR and starts neither the transcription worker nor the
\* audio capture.
C20_NothingInjectedWithoutTool ==
    /\ [](~xdotool_available => NothingInjected /\ CallsInjectNothing)
    /\ [][(~xdotool_available
           /\ \E load_ok, language_ok, can_open \in BOOLEAN :
                  BackendStart(load_ok, language_ok, can_open))
          => /\ start_ret' = Some(FALSE)
             /\ status' = ERROR
             /\ error_message']_vars

\* Without xdotool, after reset_error_state, start loaded the model and
\* failed at keyboard_output.start().
C20_Witness ==
    /\ ~xdotool_available
    /\ is_model_loaded
    /\ start_ret = Some(FALSE)
    /\ status = ERROR
    /\ NothingInjected

(***************************************************************************)
(* C21: the status ERROR is left only by reset_error_state                 *)
(***************************************************************************)
\* A step of reset_error_state
ResetsError == \E cuda \in BOOLEAN : ResetErrorState(cuda)

\* A call of start that returns False and starts no component
StartRefused ==
    /\ start_ret' = Some(FALSE)
    /\ UNCHANGED <<status, error_message, is_model_loaded, koVars,
                   ac_is_running, capture_alive, is_recording, stream_open,
                   tw_is_running, tw_alive, audio_queue, tw_audio>>

\* C21: once the status of WhisperBackend is ERROR it stays ERROR under every
\* interleaving of start, stop and the callbacks of the worker threads: a
\* call of start returns False and starts no component, and only
\* reset_error_state changes the status, to STOPPED.
C21_ErrorIsTerminal ==
    [][status = ERROR =>
         /\ status' /= ERROR => ResetsError /\ status' = STOPPED
         /\ start_ret' /= start_ret => StartRefused]_vars

(***************************************************************************)
(* C22: the retry at the device's native sample rate                       *)
(***************************************************************************)
\* The last start found the conditions of the retry: the target rate did not
\* open, a device is selected, and it reports a rate that is not the target
RetryDue(m) ==
    /\ ~m.target_ok
    /\ device_index /= None
    /\ m.reported /= None
    /\ m.reported /= Some(target_sample_rate)

\* The samples returned last span the time of the chunk_size samples read
SpansTheChunk(length) ==
    /\ length * actual_sample_rate <= chunk_size * target_sample_rate
    /\ chunk_size * target_sample_rate < (length + 1) * actual_sample_rate

\* C22: MicrophoneStream.start opens at the target rate first and retries at
\* the device's native rate exactly when that failed, a device index is
\* selected and the device reports a native rate other than the target; when
\* the retry opens, actual_sample_rate is the native rate; start raises in
\* every other case of failure and in no other case.  read_chunk resamples
\* to the target rate exactly when actual_sample_rate is not the target rate.
C22_NativeRateRetry ==
    /\ mic_start /= None =>
          \E m \in {mic_start[1]} :
              /\ m.opened[1] = target_sample_rate
              /\ Len(m.opened) = 2 <=> RetryDue(m)
              /\ RetryDue(m) => m.opened[2] = m.reported[1]
              /\ RetryDue(m) /\ m.native_ok =>
                     actual_sample_rate = m.reported[1]
              /\ m.target_ok => actual_sample_rate = target_sample_rate
              /\ m.raised <=> ~m.target_ok /\ ~(RetryDue(m) /\ m.native_ok)
              /\ stream_open => ~m.raised
    /\ read_chunk_ret /= None =>
          \E r \in {read_chunk_ret[1]} :
              /\ r.resampled <=> actual_sample_rate /= target_sample_rate
              /\ SpansTheChunk(r.length)

\* A retry has opened the stream at 44100 Hz and a chunk was read from it.
C22_Witness ==
    /\ mic_start /= None /\ read_chunk_ret /= None
    /\ mic_start[1].opened = <<target_sample_rate, 44100>>
    /\ ~mic_start[1].raised
    /\ read_chunk_ret[1] = [length |-> 174, resampled |-> TRUE]

(***************************************************************************)
(* C23: who writes previous_text                                           *)
(***************************************************************************)
\* C23: previous_text is read and written by the output worker thread only:
\* every step that changes KeyboardOutput.previous_text is a turn of
\* _output_loop, so that no write of another thread falls into a correction
\* the worker is computing.
C23_OnlyWorkerWritesPreviousText ==
    [][previous_text' /= previous_text => OutputLoop]_vars

(***************************************************************************)
(* C24: the order of the stages of find_matching_command                   *)
(***************************************************************************)
\* find_matching_command has returned
FindReturned == pc = "done" /\ call.op = "find_matching_command"

\* The commands named s exactly
ExactNames(s) == {i \in 1..Len(commands) : commands[i].name = s}

\* The registered targets of s in the synonym table
SynonymTargets(s) ==
    IF s \in {<<"ret", "urn">>, <<"ret", "urn", "key">>}
    THEN ExactNames(<<"enter">>) ELSE {}

\* The commands whose name is a prefix of s or has s as a prefix
PrefixNames(s) ==
    {i \in 1..Len(commands) :
         IsPrefix(commands[i].name, s) \/ IsPrefix(s, commands[i].name)}

\* The first of a set of commands in insertion order
FirstOf(S) == CHOOSE i \in S : \A j \in S : i <= j

\* The stage that answers for s, by priority
StagedMatch(s) ==
    IF ExactNames(s) /= {} THEN ExactNames(s)
    ELSE IF SynonymTargets(s) /= {} THEN SynonymTargets(s)
    ELSE PrefixNames(s)

\* C24: find_matching_command resolves the spoken text, lowered and trimmed,
\* by priority: the command of that name; otherwise the target of the
\* synonym table when it is registered; otherwise the first command in
\* insertion order whose name is a prefix of the spoken text or has it as a
\* prefix; otherwise None.  A stage answers only when the earlier ones fail.
C24_StagedCommandMatch ==
    FindReturned =>
        \E S \in {StagedMatch(Strip(LowerText(text)))} :
            result = Some(IF S = {} THEN None ELSE Some(commands[FirstOf(S)]))

\* 'return' is resolved to enter by the synonym table while a custom command
\* 'ret', a prefix of it, is registered.
C24_Witness ==
    /\ FindReturned
    /\ text = <<"ret", "urn">>
    /\ ExactNames(<<"ret">>) /= {}
    /\ result /= None /\ result[1] /= None
    /\ result[1][1].name = <<"enter">>

(***************************************************************************)
(* C25: 2 s of speech and 1.2 s of silence                                 *)
(***************************************************************************)
\* The whole run has been fed
RunFed == Fed("silence") = SilenceRun

\* samples of ms milliseconds
SamplesOf(ms) == (ms * sample_rate) \div 1000

\* C25: with frames of 30 ms, silence_duration 1.0 s and min_audio_length
\* 0.3 s, 2 s of speech frames followed by 1.2 s of silence frames emit
\* exactly one utterance, of 2.0 s to 2.2 s of samples.
C25_OneUtteranceOfTwoSeconds ==
    RunFed =>
        /\ Len(chunks_sent) = 1
        /\ SamplesOf(2000) <= ChunkLen(chunks_sent[1])
        /\ ChunkLen(chunks_sent[1]) <= SamplesOf(2200)

(***************************************************************************)
(* C26: a silence frame while no speech is going on                        *)
(***************************************************************************)
\* process_frame is given a silence frame while is_speaking is false
SilenceWhileIdle ==
    /\ ~is_speaking
    /\ \E frame \in Frames : ~IsSpeech(frame) /\ CaptureLoop(frame)

\* C26: a silence frame processed while is_speaking is false changes nothing
\* in the segmenter: is_speaking, silence_counter and the buffer are the
\* same after process_frame as before.
C26_SilenceWhileIdleChangesNothing ==
    [][SilenceWhileIdle =>
           UNCHANGED <<is_speaking, silence_counter, audio_buffer>>]_vars

(***************************************************************************)
(* C27: the detector without a registry                                    *)
(***************************************************************************)
\* The words after the wake word, the punctuation and whitespace around
\* them stripped
WordsAfterWakeWord(t) ==
    Split(StripPunctuationAndWhitespace(AfterWakeWord(Strip(LowerText(t)))))

\* C27: without a CommandRegistry, for a text with the wake word handled in
\* NORMAL mode, the first word after the wake word (punctuation and
\* whitespace after the wake word stripped) is the command_candidate, the
\* rest is the remaining_text and the detector is in NORMAL mode; only when
\* nothing follows the wake word the result has detected_keyword true with
\* no command, and the detector is in COMMAND_ACTIVE mode.
C27_FirstWordWithoutRegistry ==
    (ProcessTextDone(NORMAL) /\ ~has_registry /\ HasWholeWord(keyword, text))
    => \E words \in {WordsAfterWakeWord(text)} :
           IF words /= <<>>
           THEN /\ result = Some(DetectionResult(
                                     TRUE, Some(words[1]),
                                     IF Len(words) = 1 THEN None
                                     ELSE Some(Join(Tail(words))),
                                     NORMAL))
                /\ current_mode = NORMAL
           ELSE /\ result = Some(DetectionResult(TRUE, None, None,
                                                 COMMAND_ACTIVE))
                /\ current_mode = COMMAND_ACTIVE

\* Without a registry 'tony the enter' gave the command 'the' with 'enter'
\* remaining.
C27_Witness ==
    /\ ProcessTextDone(NORMAL) /\ ~has_registry
    /\ text = <<"tony", " ", "the", " ", "enter">>
    /\ result[1].command_candidate = Some(<<"the">>)
    /\ result[1].remaining_text = Some(<<"enter">>)
    /\ current_mode = NORMAL

(***************************************************************************)
(* C28: the segmenter after a completed chunk                              *)
(***************************************************************************)
\* process_frame has just returned a completed chunk
ChunkReturned ==
    /\ frames /= <<>> /\ frames[Len(frames)] /= "reset"
    /\ last_ret.chunk /= None

\* The frames of a sequence, as a set
FramesOf(c) == {c[n] : n \in 1..Len(c)}

\* No frame is in two of the chunks sent, nor in a chunk sent and the buffer
DisjointUtterances ==
    /\ \A j, k \in 1..Len(chunks_sent) :
           j /= k => FramesOf(chunks_sent[j]) \cap FramesOf(chunks_sent[k]) = {}
    /\ \A k \in 1..Len(chunks_sent) :
           /\ FramesOf(chunks_sent[k]) \cap FramesOf(audio_buffer) = {}
           /\ Cardinality(FramesOf(chunks_sent[k])) = Len(chunks_sent[k])

\* C28: right after process_frame returns a completed chunk is_speaking is
\* false, silence_counter is 0 and the buffer is empty, so that no sample is
\* in two utterances; in every state silence_counter > 0 implies
\* is_speaking, and silence_counter < silence_frames when silence_frames >= 1.
C28_FinalizationResets ==
    /\ ChunkReturned =>
           ~is_speaking /\ silence_counter = 0 /\ audio_buffer = <<>>
    /\ DisjointUtterances
    /\ silence_counter > 0 => is_speaking
    /\ silence_frames >= 1 => silence_counter < silence_frames

\* A second utterance has just been completed and sent, silence_frames = 2.
C28_Witness ==
    /\ ChunkReturned
    /\ silence_frames = 2
    /\ Len(chunks_sent) = 2
    /\ chunks_sent[2] = last_ret.chunk[1]

(***************************************************************************)
(* C29: the words after a wake word that no command follows                *)
(***************************************************************************)
\* The handler is given, in NORMAL mode, a text in which words that resolve
\* to no command, and have no other wake word, follow the wake word
WakeWordWithoutCommand ==
    /\ OnTranscriptionResult
    /\ voice_commands_enabled
    /\ current_mode = NORMAL
    /\ HasWholeWord(keyword, text)
    /\ WordsAfterWakeWord(text) /= <<>>
    /\ ~HasWholeWord(keyword, AfterWakeWord(text))
    /\ CommandAfterWakeWord = None

\* The letters of a text, in lower case
Letters(t) == SelectSeq(LowerText(t), IsWordChar)

\* The letters of the texts of the items, in order
RECURSIVE LettersOf(_)
LettersOf(items) ==
    IF items = <<>> THEN <<>>
    ELSE Letters(Head(items).text) \o LettersOf(Tail(items))

\* C29: when the wake word is detected and the words after it match no
\* registered command, the words are not lost: the text before the wake word
\* and the words after it are all typed.
C29_WordsAfterWakeWordTyped ==
    [][WakeWordWithoutCommand
       => LettersOf(typed') = Letters(BeforeWakeWord(text))
                                  \o Letters(AfterWakeWord(text))]_vars

(***************************************************************************)
(* C30: the order of the actions of one utterance                          *)
(***************************************************************************)
\* The handler executes a command for a text with text before the wake word
ExecutesAfterText == HandlesTextBeforeWakeWord /\ executed' /= <<>>

\* The texts waiting in a queue
WaitingTexts(q) == SelectSeq(q, LAMBDA item : item /= None)

PiecesOfSession == [i \in 1..Len(output_queue) |-> output_queue[i][1].text]

\* A piece begins with exactly one space
OneLeadingSpace(piece) ==
    /\ piece /= <<>>
    /\ IsSpace(piece[1])
    /\ Len(piece) >= 2 => ~IsSpace(piece[2])

StaleSession ==
    /\ current_backend
    /\ ~BackendIsRunning(status)
    /\ GetCurrentSession(sessions) /= None

\* C32: when the database records a running session but the current backend
\* is not running, get_status marks that session stopped, so that afterwards
\* is_running() is false.
C32_StaleSessionCleaned ==
    [][GetStatusCall /\ StaleSession
       => /\ GetCurrentSession(sessions') = None
          /\ ~IsRunning(current_backend', status', sessions')]_vars

(***************************************************************************)
(* C33: disabled commands                                                  *)
(***************************************************************************)
\* The command of the registry with that name is enabled
EnabledInRegistry(name) ==
    \E i \in 1..Len(commands) : commands[i].name = name /\ commands[i].enabled

\* execute_command is called for a disabled command of the registry
ExecutesDisabled ==
    \E i \in 1..Len(commands) :
        ~commands[i].enabled /\ ExecuteCommandCall(commands[i])

\* C33: a command whose enabled flag is false is never executed, whatever
\* enable_command calls and utterances came before: execute_command injects
\* no key for it, and returns False, so that the handler counts no command
\* as executed.
C33_DisabledNeverExecuted ==
    [][/\ ExecutesDisabled => xdo' = <<>>
       /\ OnTranscriptionResult
          => \A i \in 1..Len(executed') : EnabledInRegistry(executed'[i])]_vars

\* The user said the wake word and 'enter' while 'enter' was disabled: the
\* command was found and nothing was executed.
C33_Witness ==
    /\ pc = "done"
    /\ call.op = "on_transcription_result"
    /\ result /= None
    /\ result[1].command_candidate = Some(<<"enter">>)
    /\ FindMatchingCommand(<<"enter">>) /= None
    /\ ~FindMatchingCommand(<<"enter">>)[1].enabled
    /\ executed = <<>>

(***************************************************************************)
(* C34: the wake word repeated in command mode                             *)
(***************************************************************************)
\* process_text has returned from a call made in COMMAND_ACTIVE mode before
\* the timeout, with a text in which a registered command follows the wake
\* word
WakeWordRepeated ==
    /\ ProcessTextDone(COMMAND_ACTIVE)
    /\ Elapsed <= timeout_seconds
    /\ has_registry
    /\ HasWholeWord(keyword, text)
    /\ CommandAfterWakeWord /= None

\* C34: while the detector is COMMAND_ACTIVE and the timeout has not elapsed,
\* an utterance in which the wake word is repeated, followed by a registered
\* command, resolves that command as the same utterance does in NORMAL mode.
C34_WakeWordRepeatedResolves ==
    WakeWordRepeated
    => /\ result = Some(DetectionResult(TRUE,
                                        Some(CommandAfterWakeWord[1].command),
                                        CommandAfterWakeWord[1].remaining_text,
                                        NORMAL))
       /\ current_mode = NORMAL

(***************************************************************************)
(* C35: the corrector's memory and the text on the target                  *)
(***************************************************************************)
\* The text on the target after the operations, in order, have acted on it:
\* a BackSpace operation removes its count of characters from the end, a type
\* operation adds its text at the end
RECURSIVE ApplyOps(_, _)
ApplyOps(target, ops) ==
    IF ops = <<>> THEN target
    ELSE LET o == Head(ops)
         IN  ApplyOps(IF o.op = "type" THEN target \o o.text
                      ELSE SubSeq(target, 1, Max(0, Len(target) - o.count)),
                      Tail(ops))

\* a.endswith(b)
EndsWith(a, b) ==
    Len(b) <= Len(a) /\ SubSeq(a, Len(a) - Len(b) + 1, Len(a)) = b

\* The characters the operations delete
Deleted(ops) ==
    IF ops /= <<>> /\ Head(ops).op = "key" THEN Head(ops).count ELSE 0

\* C35: the text on the target ends with previous_text.  It does after
\* reset_correction_state (previous_text is empty), and every call of
\* _type_text_with_correction, with correction enabled or disabled, keeps it
\* so: the call deletes no more than previous_text, and the operations it
\* emits turn a text that ends with previous_text into a text that ends with
\* the new previous_text.
C35_MemoryMatchesTarget ==
    [][WorkerTypes
       => /\ Deleted(xdo') <= Len(previous_text)
          /\ EndsWith(ApplyOps(previous_text, xdo'), previous_text')]_vars

(***************************************************************************)
(* C38: the output queue from one session to the next                      *)
(***************************************************************************)
\* A thread running _output_loop ends while is_running is true
ExitsWhileRunning == OutputLoop /\ workers' = workers - 1 /\ ko_is_running

\* C38: at every KeyboardOutput.start() the output queue holds no item of an
\* earlier session, neither a text nor the sentinel, and the worker of a
\* session does not exit before the next stop().
C38_OutputSessionsIsolated ==
    [][/\ KoStart => output_queue = <<>>
       /\ ~ExitsWhileRunning]_vars

(***************************************************************************)
(* C39: unloading the model and the transcription in progress              *)
(***************************************************************************)
\* WhisperBackend.stop reaches unload_model with a model loaded
UnloadsModel == BackendStopReturn /\ is_model_loaded

\* C39: the recognition model is never unloaded while a transcription is in
\* progress: when stop() unloads the model, the transcription worker is not
\* between the start and the end of a transcribe call.
C39_NoUnloadWhileTranscribing ==
    [][UnloadsModel => pc /= "transcribing"]_vars

(***************************************************************************)
(* C40: the built-in commands                                              *)
(***************************************************************************)
\* C40: after any sequence of register_command and unregister_command calls,
\* with any names in any letter case, every built-in command name is still
\* resolvable by get_command.
C40_BuiltinsStayResolvable ==
    \A i \in 1..Len(BuiltinCommands) :
        GetCommand(BuiltinCommands[i].name) /= None

\* C36: whenever WhisperBackend.stop() has returned True and start has not
\* been called since, the audio capture, the transcription worker and the
\* keyboard output worker are not running - whatever the status was when
\* stop was called.
C36_StopMeansStopped ==
    stop_ret = Some(TRUE) =>
        ~ac_is_running /\ ~tw_is_running /\ ~ko_is_running

\* A call of WhisperBackend.start(language), whatever its three outcomes
StartCalled ==
    \E load_ok, language_ok, can_open \in BOOLEAN :
        BackendStart(load_ok, language_ok, can_open)

\* C37: a call of WhisperBackend.start() that returns False leaves no worker
\* running that was not running before it, and no start ever replaces a
\* transcription worker whose thread lives on.
C37_FailedStartLeavesNothingRunning ==
    /\ [][StartCalled /\ start_ret' = Some(FALSE) =>
            /\ ko_is_running' => ko_is_running
            /\ tw_is_running' => tw_is_running
            /\ ac_is_running' => ac_is_running]_vars
    /\ [](tw_orphans = 0)

====
